---- MODULE Spec2Model ----
(***************************************************************************)
(* Pack Howl: the relay server (src/server.py), the client's network       *)
(* session (src/client/network.py) and its audio engine                    *)
(* (src/client/audio_engine.py) as state machines.                         *)
(*                                                                         *)
(* The server is one asyncio event loop.  Code between two awaits runs     *)
(* atomically: an action is one task's run from the point where the loop   *)
(* resumes it to the await at which it next gives the loop up.             *)
(*                                                                         *)
(* Time is counted in ticks of 100 ms.                                     *)
(***************************************************************************)
EXTENDS Integers, Sequences, FiniteSets, TLC

(* ------------------------------ bounds -------------------------------- *)
\* connections accepted in one run, and in a run in which peers send lines
NConn == 4
NPeers == 3
\* last clock value, and in a run with the voice watcher
MaxTime == 3
MaxVoiceTime == 13
\* lines read by the server in one run
MaxLines == 2
\* drains that suspend in one run
MaxSuspend == 1
\* connections lost abruptly in one run
MaxLost == 1
\* connection attempts of the client in one run
MaxAttempts == 3
\* turns of the client's receive loop, and queue_message calls, in one run
MaxRx == 1
MaxMsgs == 2
\* capture callbacks, playback callbacks and packets received in one run
MaxCallbacks == 3
MaxPackets == 3
\* config.MAX_USERS is 15 (src/config.py:25); the model runs with a smaller ceiling
MAX_USERS == 3
\* SERVER_IP_BLOCK_DURATION (imported at src/server.py:14, "5 minutes"), in ticks
SERVER_IP_BLOCK_DURATION == 2
\* the cleaner sleeps 60 s (src/server.py:366), a fifth of the block; in ticks
CLEAN_SLEEP == 1

(* ------------------------- program constants -------------------------- *)
\* src/server.py:230  len(raw) > 4096
LINE_LIMIT == 4096
\* src/server.py:352  now - c.last_audio > 0.3
VOICE_TIMEOUT == 3
\* src/server.py:348  asyncio.sleep(0.3)
WATCH_SLEEP == 3

(* ------------------------------ names --------------------------------- *)
CnNames == <<"alice", "bob", "carol", "dave", "erin", "frank">>
\* the names in the whitelist file of the runs
Whitelist == {CnNames[i] : i \in 1..(MAX_USERS + 1)}
\* a certificate CN outside the whitelist, and the handler's cn when there is no certificate
Stranger == "mallory"
UNKNOWN == "UNKNOWN"
NoCert == "<none>"

Conns == 1..NConn
WatcherTask == NConn + 1
Tasks == 1..WatcherTask

(* ------------------------------ JSON ---------------------------------- *)
\* a JSON value of a message field: absent, a boolean, a string, a number
Absent == "absent"
JBool == {"true", "false"}
JStr == {"s:zed", "s:True", "s:False", "s:", "s:10.9.9.9", "s:hex", "s:hi",
         "s:1", "s:2", "s:3", "s:4"}

VARIABLES now, blocked_ips, clients, conn, frame, inbox, wake, clean_at,
          nlines, nsusp, nlost, cn_whitelist

serverVars == <<now, blocked_ips, clients, conn, frame, inbox, wake, clean_at,
                nlines, nsusp, nlost, cn_whitelist>>
\* the client's network session (src/client/network.py)
VARIABLES net_pc, net_i, net_stop, status, attempts, answers, slept

netVars == <<net_pc, net_i, net_stop, status, attempts, answers, slept>>

\* its loop, its connections (send task, socket, lines written), its outbound queue,
\* and the queue_message calls under way
VARIABLES net_loop, send, link, wire, outbound_queue, sched, qm, shut, nmsg, nrx

sendVars == <<send, link, wire, outbound_queue>>
txVars == <<net_loop, sendVars, sched, qm, shut, nmsg, nrx>>

\* the audio engine (src/client/audio_engine.py)
VARIABLES mic_muted, spk_muted, ptt_pressed, ptt_enabled, vox_enabled, vox_active,
          loopback_enabled, resample_input, incoming_audio_queue, voxActivity,
          inputLevel, cb, mode_pc, outdata, ncb, npk, nout, dev_in_rate

audioVars == <<mic_muted, spk_muted, ptt_pressed, ptt_enabled, vox_enabled, vox_active,
               loopback_enabled, resample_input, incoming_audio_queue, voxActivity,
               inputLevel, cb, mode_pc, outdata, ncb, npk, nout, dev_in_rate>>

clientVars == <<netVars, txVars, audioVars>>

vars == <<serverVars, clientVars>>

(* ----------------------- ClientInfo and the registry ------------------- *)
\* self.clients is a dict: it keeps insertion order, a popped key leaves a hole in
\* the entry table and a new key is appended (no compaction below 6 insertions).
DeadEntry ==
  [live |-> FALSE, key |-> "", writer |-> 0, cn |-> "", ip |-> "", tx |-> FALSE,
   muted |-> "false", spk_muted |-> "false", last_audio |-> 0]

ClientInfo(c, cn, ip) ==
  [live |-> TRUE, key |-> cn, writer |-> c, cn |-> cn, ip |-> ip, tx |-> FALSE,
   muted |-> "false", spk_muted |-> "false", last_audio |-> 0]

KeyIndex(cl, k) ==
  IF \E i \in 1..Len(cl) : cl[i].live /\ cl[i].key = k
  THEN CHOOSE i \in 1..Len(cl) : cl[i].live /\ cl[i].key = k
  ELSE 0

HasKey(cl, k) == KeyIndex(cl, k) # 0

DictLen(cl) == Cardinality({i \in 1..Len(cl) : cl[i].live})

DictSet(cl, k, e) ==
  IF HasKey(cl, k) THEN [cl EXCEPT ![KeyIndex(cl, k)] = e] ELSE Append(cl, e)

DictPop(cl, k) ==
  IF HasKey(cl, k) THEN [cl EXCEPT ![KeyIndex(cl, k)] = DeadEntry] ELSE cl

IsLive(e) == e.live

DictValues(cl) == SelectSeq(cl, IsLive)

\* the connections that own a registry entry
Registered(cl) == {cl[i].writer : i \in {j \in 1..Len(cl) : cl[j].live}}

(* ------------------------------ lines ---------------------------------- *)
\* form: how the bytes of a JSON line are laid out: "dumps" as Python's json.dumps
\* writes the object (", " and ": " between items, keys in the order given, ASCII
\* only), "compact" the same object without the spaces
NoLine ==
  [len |-> 0, json |-> FALSE, form |-> "none", type |-> Absent, name |-> Absent,
   ip |-> Absent, muted |-> Absent, spk_muted |-> Absent, data |-> Absent,
   value |-> Absent, text |-> Absent]

Obj(len, type) ==
  [NoLine EXCEPT !.len = len, !.json = TRUE, !.form = "dumps", !.type = type]

\* the number of keys of an object
Keys(o) ==
  Cardinality({k \in {"type", "name", "ip", "muted", "spk_muted", "data", "value", "text"} :
                 o[k] # Absent})

\* line 235: json.loads(raw.decode()) gives a dict, which has no layout; len is the
\* length of the line json.dumps writes for it
json_loads(raw) ==
  [raw EXCEPT !.form = "dict",
              !.len = IF raw.form = "compact" THEN raw.len + 2 * Keys(raw) - 1 ELSE raw.len]

\* line 334: (json.dumps(msg) + "\n").encode()
json_dumps(msg) == [msg EXCEPT !.form = "dumps"]

\* the lines a client may send: one of each shape the handler tells apart
NotJson == [NoLine EXCEPT !.len = 40]
TooLongLine == [Obj(LINE_LIMIT + 1, "audio") EXCEPT !.data = "s:hex"]
LongestLine == [Obj(LINE_LIMIT, "audio") EXCEPT !.data = "s:hex"]
AudioLine == [Obj(60, "audio") EXCEPT !.data = "s:hex"]
ChatLine == [Obj(60, "chat") EXCEPT !.text = "s:hi"]
ChatNoText == Obj(60, "chat")
\* {"type":"chat","text":"hi"} as a client that is not written in Python sends it
ChatCompact == [ChatLine EXCEPT !.form = "compact", !.len = 57]
InitLine ==
  [Obj(60, "init") EXCEPT !.name = "s:zed", !.ip = "s:10.9.9.9",
                          !.muted = "s:True", !.spk_muted = "s:False"]
StatusLine == [Obj(60, "status") EXCEPT !.muted = "true", !.spk_muted = "false"]
\* a status message without `muted`, and one whose `muted` is a string
StatusNoMuted == [Obj(60, "status") EXCEPT !.spk_muted = "true"]
StatusStrMuted == [Obj(60, "status") EXCEPT !.muted = "s:True", !.spk_muted = "false"]
MutedLine == [Obj(60, "muted") EXCEPT !.value = "true"]
UserlistLine == [Obj(60, "userlist") EXCEPT !.text = "s:hi"]
NoTypeLine == [Obj(60, Absent) EXCEPT !.text = "s:hi"]

Lines ==
  {NotJson, TooLongLine, LongestLine, AudioLine, ChatLine, ChatNoText, ChatCompact,
   InitLine, StatusLine, StatusNoMuted, StatusStrMuted, MutedLine, UserlistLine, NoTypeLine}

\* variant: msg.get(k), without a default
GetNoDefault(v) == v

\* msg.get(k, False)
GetOrFalse(v) == IF v = Absent THEN "false" ELSE v

\* bool(x) of a JSON value
PyBool(v) == IF v \in {Absent, "false", "s:", "n:0"} THEN "false" ELSE "true"

\* lines 212-221: the types validate_msg knows
KnownTypes == {"init", "status", "audio", "muted", "chat"}

\* variant: a validator that lets a type it does not know through
validate_msg_lenient(msg) == msg.type # Absent

validate_msg(msg) ==
  IF msg.type = Absent THEN FALSE
  ELSE CASE msg.type = "init" -> msg.name \in JStr /\ msg.ip \in JStr
         [] msg.type = "status" ->
              GetOrFalse(msg.muted) \in JBool /\ GetOrFalse(msg.spk_muted) \in JBool
         [] msg.type = "audio" -> msg.data \in JStr
         [] msg.type = "muted" -> msg.value \in JBool
         [] msg.type = "chat" -> msg.text \in JStr
         [] OTHER -> FALSE

(* --------------------------- wire messages ------------------------------ *)
\* what the server writes to a peer.  src and n say which connection's line it relays
\* and which line of the run it was (0 for a snapshot): they are not on the wire.
NoMsg == [type |-> "none", users |-> << >>, body |-> NoLine, src |-> 0, n |-> 0]

\* owner is the connection whose ClientInfo the entry was built from (not on the wire)
UserEntry(e) ==
  [name |-> e.cn, ip |-> e.ip, tx |-> e.tx, muted |-> e.muted, spk_muted |-> e.spk_muted,
   owner |-> e.writer]

UserList(cl) ==
  [i \in 1..Len(DictValues(cl)) |-> UserEntry(DictValues(cl)[i])]

UserListMsg(cl) == [NoMsg EXCEPT !.type = "userlist", !.users = UserList(cl)]

\* lines 334: the line broadcast(msg) writes
RelayMsg(msg, c, n) ==
  [NoMsg EXCEPT !.type = msg.type, !.body = json_dumps(msg), !.src = c, !.n = n]

\* list(self.clients.items()): key and writer of each entry
DictItems(cl) ==
  [i \in 1..Len(DictValues(cl)) |->
     [key |-> DictValues(cl)[i].key, writer |-> DictValues(cl)[i].writer]]

(* ------------------------------- state --------------------------------- *)
\* conn[c]: the socket of connection c.  net: "none" (not yet accepted), "up",
\* "closed" (the server closed the writer), "reset" (EOF, connection reset or broken
\* pipe), "error" (lost with another exception: a TLS error, a timeout).
\* outcome: what handle_client decided for it (its log line), at: when.
\* left: why its handler left the read loop ("no": it has not).
\* got: the number of lines readline has returned on it (not in the code: the
\* handler keeps no such record).
NoConn ==
  [ip |-> "", cert |-> "", net |-> "none", outcome |-> "none", at |-> 0, left |-> "no",
   got |-> 0]

\* frame[t]: the locals and the position of task t (a handler, or the watcher)
NoFrame ==
  [pc |-> "idle", cn |-> UNKNOWN, site |-> "", it_i |-> 0, it_used |-> 0, it_len |-> 0,
   message |-> NoMsg, data |-> NoMsg, items |-> << >>]

NoBlocks == [i \in {} |-> 0]

\* lines 99-115: the state of a new server, the whitelist aside
ServerStart ==
  /\ now = 0
  /\ blocked_ips = NoBlocks
  /\ clients = << >>
  /\ conn = [c \in Conns |-> NoConn]
  /\ frame = [t \in Tasks |-> IF t = WatcherTask THEN [NoFrame EXCEPT !.pc = "sleep"]
                                                ELSE NoFrame]
  /\ inbox = [c \in Conns |-> << >>]
  /\ wake = WATCH_SLEEP
  /\ clean_at = CLEAN_SLEEP
  /\ nlines = 0
  /\ nsusp = 0
  /\ nlost = 0

\* lines 103-115: self.cn_whitelist is loaded once and never changed
ServerInit == cn_whitelist = Whitelist /\ ServerStart

\* a whitelist file that also holds the line UNKNOWN
WhitelistFiles == {Whitelist, Whitelist \cup {UNKNOWN}}
ServerInitAnyFile == cn_whitelist \in WhitelistFiles /\ ServerStart

(* --------------------------- the event loop ---------------------------- *)
\* What a running task reads and writes, as one record; cur is the task that holds
\* the loop, 0 once it has given the loop up.
Loop(t) ==
  [clients |-> clients, conn |-> conn, frame |-> frame, inbox |-> inbox, wake |-> wake,
   nsusp |-> nsusp, cur |-> t]

\* an await on the writer (drain, wait_closed): the task is resumed before any other
\* task or callback has run, or the loop runs others first (at most MaxSuspend times
\* in a run)
Await(S) ==
  {S} \cup IF S.nsusp < MaxSuspend THEN {[S EXCEPT !.cur = 0, !.nsusp = @ + 1]} ELSE {}

\* writer.write(data): the bytes reach the peer's stream while the connection is up
Write(S, w, m) ==
  IF S.conn[w].net = "up" THEN [S EXCEPT !.inbox[w] = Append(@, m)] ELSE S

\* the task gives the loop up at pc with its locals dropped: a handler back in
\* reader.readline() (line 227), a task that has ended, the watcher asleep
Ends(S, t, pc) ==
  [S EXCEPT !.frame[t] = [NoFrame EXCEPT !.pc = pc, !.cn = S.frame[t].cn], !.cur = 0]

Reads(S, t) == Ends(S, t, "read")

(* ------------------------ broadcast_user_list --------------------------- *)
\* lines 309-324: build the message, then iter(self.clients.values())
BulStart(S, t, site) ==
  [S EXCEPT !.frame[t].pc = "bul_next", !.frame[t].site = site,
            !.frame[t].message = UserListMsg(S.clients),
            !.frame[t].it_i = 1, !.frame[t].it_used = DictLen(S.clients),
            !.frame[t].it_len = DictLen(S.clients)]

\* next() of a dict iterator: -1 RuntimeError, 0 StopIteration, else the entry's index
IterNext(f, cl) ==
  IF f.it_used # DictLen(cl) THEN -1
  ELSE LET js == {j \in f.it_i..Len(cl) : cl[j].live} IN
       IF js = {} THEN 0
       ELSE IF f.it_len = 0 THEN -1
       ELSE CHOOSE j \in js : \A k \in js : j <= k

\* lines 324-329: one turn of the loop; a failed write is logged and the loop goes on
BulWrite(S, t, j) ==
  Await(Write([S EXCEPT !.frame[t].it_i = j + 1, !.frame[t].it_len = @ - 1],
              S.clients[j].writer, S.frame[t].message))

\* the for statement raises RuntimeError (dictionary changed size during iteration):
\* at line 199 it is caught at 282, inside the read loop at 277; from the finally
\* block and from the watcher nothing catches it
BulRaise(S, t) ==
  LET site == S.frame[t].site IN
  CASE site = "accept" ->
         [S EXCEPT !.conn[t].left = "error",
                   !.frame[t] = [NoFrame EXCEPT !.pc = "finally", !.cn = S.frame[t].cn]]
    [] site = "finally" -> Ends(S, t, "crashed")
    [] site = "watch" -> Ends(S, t, "dead")
    [] OTHER -> Reads(S, t)

\* list(self.clients.items()): key and writer of each entry (line 335)
RelStart(S, t) ==
  [S EXCEPT !.frame[t].pc = "rel_next", !.frame[t].items = DictItems(S.clients)]

\* broadcast_user_list returns: to the read loop, to broadcast(msg) at line 263, to the
\* end of the handler, or to the watcher's sleep
BulReturn(S, t) ==
  LET site == S.frame[t].site
      R == [S EXCEPT !.frame[t].message = NoMsg] IN
  CASE site = "audio" -> RelStart(R, t)
    [] site = "finally" -> Ends(R, t, "done")
    [] site = "watch" -> [Ends(R, t, "sleep") EXCEPT !.wake = now + WATCH_SLEEP]
    [] OTHER -> Reads(R, t)

BulNext(S, t) ==
  LET j == IterNext(S.frame[t], S.clients) IN
  IF j = -1 THEN {BulRaise(S, t)}
  ELSE IF j = 0 THEN {BulReturn(S, t)}
  ELSE BulWrite(S, t, j)

(* ------------------------------ broadcast ------------------------------- *)
\* lines 335-337: the entries still to be written, the sender's key skipped
RelItems(f) ==
  LET NotExcluded(it) == it.key # f.cn IN SelectSeq(f.items, NotExcluded)

\* lines 339-340: write the relayed line to the next recipient and await drain
RelWrite(S, t) ==
  LET its == RelItems(S.frame[t]) IN
  Await(Write([S EXCEPT !.frame[t].pc = "rel_drain", !.frame[t].items = its],
              its[1].writer, S.frame[t].data))

\* the list is exhausted: back to reader.readline()
RelReturn(S, t) == Reads(S, t)

RelNext(S, t) ==
  IF RelItems(S.frame[t]) = << >> THEN {RelReturn(S, t)} ELSE RelWrite(S, t)

\* lines 340-342: drain returns, or raises.  ConnectionResetError and BrokenPipeError
\* pop the recipient's key; any other exception leaves broadcast and is caught at 277
RelDrain(S, t) ==
  LET it == S.frame[t].items[1]
      net == S.conn[it.writer].net IN
  IF net = "error" THEN RelReturn(S, t)
  ELSE [S EXCEPT !.clients = IF net \in {"reset", "closed"} THEN DictPop(@, it.key) ELSE @,
                 !.frame[t].pc = "rel_next",
                 !.frame[t].items = Tail(@)]

(* ----------------------- handle_client: finally ------------------------- *)
\* lines 284-293: pop the handler's cn, then await writer.drain()
Finally(S, c) ==
  Await([S EXCEPT !.clients = DictPop(@, S.frame[c].cn), !.frame[c].pc = "fin_drain"])

\* lines 293-295: drain returns, the writer is closed and the handler waits in
\* wait_closed; or drain raises (the connection is gone), which is logged at 297
FinDrain(S, c) ==
  IF S.conn[c].net = "up"
  THEN Await([S EXCEPT !.conn[c].net = "closed", !.frame[c].pc = "fin_closed"])
  ELSE {[S EXCEPT !.frame[c].pc = "fin_closed"]}

\* line 300
FinBroadcast(S, c) == BulStart(S, c, "finally")

(* ------------------------- running a task ------------------------------- *)
\* the next step of the task that holds the loop
Step(S) ==
  LET t == S.cur
      pc == S.frame[t].pc IN
  CASE pc = "bul_next" -> BulNext(S, t)
    [] pc = "rel_next" -> RelNext(S, t)
    [] pc = "rel_drain" -> {RelDrain(S, t)}
    [] pc = "finally" -> Finally(S, t)
    [] pc = "fin_drain" -> FinDrain(S, t)
    [] pc = "fin_closed" -> {FinBroadcast(S, t)}

\* the states in which the task gives the loop up
RECURSIVE Run(_)
Run(S) == IF S.cur = 0 THEN {S} ELSE UNION {Run(S2) : S2 \in Step(S)}

\* the task's run becomes the next state
Becomes(starts) ==
  \E S \in UNION {Run(S0) : S0 \in starts} :
    /\ clients' = S.clients
    /\ conn' = S.conn
    /\ frame' = S.frame
    /\ inbox' = S.inbox
    /\ wake' = S.wake
    /\ nsusp' = S.nsusp

\* a task that gave the loop up in an await on a writer
Suspended(t) ==
  frame[t].pc \in {"bul_next", "rel_next", "rel_drain", "finally", "fin_drain", "fin_closed"}

\* the loop resumes it
Resume(t) ==
  /\ Suspended(t)
  /\ Becomes({Loop(t)})
  /\ UNCHANGED <<now, blocked_ips, clean_at, nlines, nlost, cn_whitelist, clientVars>>

(* ----------------------- handle_client: accepting ----------------------- *)
Accepted == {c \in Conns : frame[c].pc # "idle"}

\* connections are numbered in the order they are accepted; addresses and certificate
\* names are taken in a fixed order of first use (renaming them changes nothing)
IpNames == <<"10.0.0.1", "10.0.0.2">>
UsedIPs == {conn[c].ip : c \in Accepted}
IpChoices == {IpNames[i] : i \in {j \in 1..Len(IpNames) : j <= Cardinality(UsedIPs) + 1}}
UsedCNs == {conn[c].cert : c \in Accepted} \cap cn_whitelist
CertChoices ==
  {CnNames[i] : i \in {j \in 1..(MAX_USERS + 1) : j <= Cardinality(UsedCNs) + 1}}
    \cup {Stranger, NoCert}

\* line 180
CertCN(cert) == IF cert = NoCert THEN UNKNOWN ELSE cert

\* variant: a block that still holds when exactly the duration has passed
IsBlockedInclusive(b, ip, t) == ip \in DOMAIN b /\ t - b[ip] <= SERVER_IP_BLOCK_DURATION

\* lines 169-170
IsBlocked(b, ip, t) == ip \in DOMAIN b /\ t - b[ip] < SERVER_IP_BLOCK_DURATION

\* line 184, and line 177
BlockSet(b, ip, t) == [i \in DOMAIN b \cup {ip} |-> IF i = ip THEN t ELSE b[i]]
BlockDel(b, ip) == [i \in DOMAIN b \ {ip} |-> b[i]]

\* variant: a ceiling that lets one more session in
AtCapacityOffByOne(cl) == DictLen(cl) > MAX_USERS

\* line 190
AtCapacity(cl) == DictLen(cl) >= MAX_USERS

\* lines 172-173, 186-187, 191-192: close the writer, await wait_closed, return
Refuse(S, c, ip, cert, why, cn) ==
  Await([S EXCEPT !.conn[c] = [NoConn EXCEPT !.ip = ip, !.cert = cert, !.net = "closed",
                                              !.outcome = why, !.at = now],
                  !.frame[c].pc = "finally", !.frame[c].cn = cn])

\* lines 195-199
Register(S, c, ip, cert, cn) ==
  BulStart([S EXCEPT !.clients = DictSet(@, cn, ClientInfo(c, cn, ip)),
                     !.conn[c] = [NoConn EXCEPT !.ip = ip, !.cert = cert, !.net = "up",
                                                !.outcome = "registered", !.at = now],
                     !.frame[c].cn = cn],
           c, "accept")

\* lines 163-199: a connection arrives with peer address ip and certificate cert
Accept(c, ip, cert) ==
  /\ frame[c].pc = "idle"
  /\ \A d \in Conns : d < c => frame[d].pc # "idle"
  /\ LET cn == CertCN(cert) IN
     IF IsBlocked(blocked_ips, ip, now)
     THEN /\ blocked_ips' = blocked_ips
          /\ Becomes(Refuse(Loop(c), c, ip, cert, "blocked", UNKNOWN))
     ELSE IF cn \notin cn_whitelist
     THEN /\ blocked_ips' = BlockSet(blocked_ips, ip, now)
          /\ Becomes(Refuse(Loop(c), c, ip, cert, "denied", cn))
     ELSE IF AtCapacity(clients)
     THEN /\ blocked_ips' = BlockDel(blocked_ips, ip)
          /\ Becomes(Refuse(Loop(c), c, ip, cert, "full", cn))
     ELSE /\ blocked_ips' = BlockDel(blocked_ips, ip)
          /\ Becomes({Register(Loop(c), c, ip, cert, cn)})
  /\ UNCHANGED <<now, clean_at, nlines, nlost, cn_whitelist, clientVars>>

(* ----------------------- handle_client: the read loop ------------------- *)
\* the Python str of a JSON string
StrOf(v) ==
  CASE v = "s:zed" -> "zed"
    [] v = "s:True" -> "True"
    [] v = "s:False" -> "False"
    [] v = "s:10.9.9.9" -> "10.9.9.9"
    [] v = "s:hex" -> "hex"
    [] v = "s:hi" -> "hi"
    [] OTHER -> ""

\* lines 242-270: what a validated message does to self.clients[cn] (entry e)
Apply(e, msg, t) ==
  CASE msg.type = "init" ->
         [e EXCEPT !.cn = StrOf(msg.name), !.ip = StrOf(msg.ip),
                   !.muted = GetOrFalse(msg.muted), !.spk_muted = GetOrFalse(msg.spk_muted)]
    [] msg.type = "status" ->
         [e EXCEPT !.spk_muted = PyBool(GetOrFalse(msg.spk_muted)),
                   !.muted = PyBool(GetOrFalse(msg.muted))]
    [] msg.type = "audio" -> [e EXCEPT !.tx = TRUE, !.last_audio = t]
    [] msg.type = "muted" -> [e EXCEPT !.muted = PyBool(GetOrFalse(msg.value))]
    [] OTHER -> e

\* the message types whose branch reads self.clients[cn]
TouchesEntry(type) == type \in {"init", "status", "audio", "muted"}

\* variant: a limit that rejects a line of exactly 4096 bytes
TooLongInclusive(line) == line.len >= LINE_LIMIT

\* line 230
TooLong(line) == line.len > LINE_LIMIT

\* lines 230-239: the line is too long, or is JSON that validate_msg rejects: break
Breaks(line) == TooLong(line) \/ (line.json /\ ~validate_msg(line))

\* why the handler leaves: the log line of 231 or 238
LeftWhy(line) ==
  IF TooLong(line) THEN "too long"
  ELSE IF line.type \in KnownTypes THEN "bad fields" ELSE "bad type"

\* the handler leaves the read loop for the finally block
Leave(S, c, why) == [S EXCEPT !.frame[c].pc = "finally", !.conn[c].left = why]

\* lines 234-278: the handler's run on a line that does not break the loop
Handle(S, c, line, n) ==
  LET cn == S.frame[c].cn
      k == KeyIndex(S.clients, cn)
      msg == json_loads(line) IN
  IF ~line.json \/ (TouchesEntry(msg.type) /\ k = 0)
  THEN \* json.loads or self.clients[cn] raises: logged at 278, the loop goes on
       [S EXCEPT !.cur = 0]
  ELSE IF TouchesEntry(msg.type)
  THEN BulStart([S EXCEPT !.clients[k] = Apply(@, msg, now),
                          !.frame[c].data = IF msg.type = "audio"
                                            THEN RelayMsg(msg, c, n) ELSE NoMsg],
                c, msg.type)
  ELSE \* line 275
       RelStart([S EXCEPT !.frame[c].data = RelayMsg(msg, c, n)], c)

\* lines 227-278: readline returns a line and the handler runs on it
ReadLine(c, line) ==
  /\ frame[c].pc = "read"
  /\ conn[c].net = "up"
  /\ nlines' = nlines + 1
  /\ LET S == [Loop(c) EXCEPT !.conn[c].got = @ + 1]
     IN  IF Breaks(line)
         THEN Becomes({Leave(S, c, LeftWhy(line))})
         ELSE Becomes({Handle(S, c, line, nlines + 1)})
  /\ UNCHANGED <<now, blocked_ips, clean_at, nlost, cn_whitelist, clientVars>>

\* a peer sends a line (at most MaxLines in a run)
Recv(c, line) == nlines < MaxLines /\ ReadLine(c, line)

\* the peer closes or the connection is lost: the event loop marks the transport;
\* the handler learns of it when it is next resumed in readline
NetDown(c, kind) ==
  /\ conn[c].net = "up"
  /\ nlost < MaxLost
  /\ nlost' = nlost + 1
  /\ conn' = [conn EXCEPT ![c].net = kind]
  /\ UNCHANGED <<now, blocked_ips, clients, frame, inbox, wake, clean_at, nlines, nsusp, cn_whitelist, clientVars>>

\* lines 227-229 and 280-283: readline returns b"" or raises
HandlerEOF(c) ==
  /\ frame[c].pc = "read"
  /\ conn[c].net \in {"reset", "error"}
  /\ Becomes({Leave(Loop(c), c, "eof")})
  /\ UNCHANGED <<now, blocked_ips, clean_at, nlines, nlost, cn_whitelist, clientVars>>

(* ------------------------- background tasks ----------------------------- *)
\* a sleep of the watcher (line 348) or of the cleaner (line 366) is over
WatcherDue == frame[WatcherTask].pc = "sleep" /\ now >= wake
CleanerDue == now >= clean_at

\* variant: a flag that is stale as soon as the timeout is reached
StaleAtTimeout(e, t) == e.live /\ e.tx /\ t - e.last_audio >= VOICE_TIMEOUT

\* line 352
Stale(e, t) == e.live /\ e.tx /\ t - e.last_audio > VOICE_TIMEOUT

\* lines 349-354
ClearStale(cl, t) ==
  [i \in 1..Len(cl) |-> IF Stale(cl[i], t) THEN [cl[i] EXCEPT !.tx = FALSE] ELSE cl[i]]

\* lines 347-356: one turn of the watcher
VoiceWatcher ==
  /\ WatcherDue
  /\ IF \E i \in 1..Len(clients) : Stale(clients[i], now)
     THEN Becomes({BulStart([Loop(WatcherTask) EXCEPT !.clients = ClearStale(@, now)],
                            WatcherTask, "watch")})
     ELSE Becomes({[Loop(0) EXCEPT !.wake = now + WATCH_SLEEP]})
  /\ UNCHANGED <<now, blocked_ips, clean_at, nlines, nlost, cn_whitelist, clientVars>>

\* variant: a sweep that keeps an entry when exactly the duration has passed
PurgedLate(b, t) ==
  [i \in {j \in DOMAIN b : t - b[j] <= SERVER_IP_BLOCK_DURATION} |-> b[i]]

\* lines 368-372: the entries that outlive a sweep at time t
Purged(b, t) ==
  [i \in {j \in DOMAIN b : t - b[j] < SERVER_IP_BLOCK_DURATION} |-> b[i]]

\* lines 365-372: one turn of the cleaner
BlocklistCleaner ==
  /\ CleanerDue
  /\ blocked_ips' = Purged(blocked_ips, now)
  /\ clean_at' = now + CLEAN_SLEEP
  /\ UNCHANGED <<now, clients, conn, frame, inbox, wake, nlines, nsusp, nlost, cn_whitelist, clientVars>>

\* time.time() advances by a tick
Tick(limit) ==
  /\ now < limit
  /\ now' = now + 1
  /\ UNCHANGED <<blocked_ips, clients, conn, frame, inbox, wake, clean_at, nlines,
                 nsusp, nlost, cn_whitelist, clientVars>>

(* ---------------------- the client's network session ------------------- *)
\* variant: a countdown that starts at 3
CountdownFrom3 == <<3, 2, 1>>

\* range(5, 0, -1) at line 101
Countdown == <<5, 4, 3, 2, 1>>

\* the status signal's messages (lines 97, 104, 109, 142, 193)
\* as pairs of the text and the number of seconds it names (0: none)
Connecting == <<"[INFO] connecting", 0>>
Connected == <<"[OK] connected", 0>>
NetworkError == <<"[ERR] Network error", 0>>
ServerClosed == <<"[WARN] server closed connection", 0>>
Reconnecting(i) == <<"[INFO] Reconnecting in", i>>

\* The connections of the session are numbered by the attempt that opened them.
Attempts == 1..MaxAttempts

\* a message handed to queue_message: its type, the number of the call, and whether
\* stop() had been called when the call began (n and late are not on the wire)
OutMsg(type, n, late) == [type |-> type, n |-> n, late |-> late]
\* lines 145-151: the hello
Hello == OutMsg("init", 0, FALSE)
\* line 256: the poison pill
StopMsg == OutMsg("stop", 0, FALSE)

\* no queue_message call is between its test (line 228) and its
\* run_coroutine_threadsafe (line 229)
NoCall == [m |-> StopMsg, by |-> "none"]

\* after NetworkThread.__init__: the thread has not been started, _loop is None
ClientInit ==
  /\ net_pc = "new"
  /\ net_i = 0
  /\ net_stop = FALSE
  /\ status = << >>
  /\ attempts = 0
  /\ answers = << >>
  /\ slept = 0
  /\ net_loop = FALSE
  /\ send = [k \in Attempts |-> "none"]
  /\ link = [k \in Attempts |-> "none"]
  /\ wire = [k \in Attempts |-> << >>]
  /\ outbound_queue = << >>
  /\ sched = << >>
  /\ qm = NoCall
  /\ shut = "no"
  /\ nmsg = 0
  /\ nrx = 0

\* self._writer and self._send_task belong to the connection opened last (lines 130, 138)
LastOpened ==
  LET S == {k \in 1..Len(answers) : answers[k] = "accept"}
  IN  IF S = {} THEN 0 ELSE CHOOSE k \in S : \A j \in S : j <= k

\* _main is suspended in an await (lines 105, 130, 159): the loop runs callbacks and
\* other tasks
AtAwait == net_pc \in {"open", "rx", "sleep"}

\* lines 81-85: _main has returned; run() closes the loop and forgets it, and what
\* was scheduled on it never runs
Returned ==
  /\ net_pc' = "returned"
  /\ net_loop' = FALSE
  /\ sched' = << >>

\* lines 78-92: the thread is started and _main reaches the head of its loop
Start ==
  /\ net_pc = "new"
  /\ net_pc' = "loop"
  /\ net_loop' = TRUE
  /\ UNCHANGED <<net_i, net_stop, status, attempts, answers, slept, sendVars, sched, qm,
                 shut, nmsg, nrx, serverVars, audioVars>>

\* lines 93-95 and 108-130: the loop test, then _connect_and_loop up to open_connection
NetLoop ==
  /\ net_pc = "loop"
  /\ IF net_stop
     THEN Returned /\ UNCHANGED <<status, attempts>>
     ELSE /\ attempts < MaxAttempts
          /\ attempts' = attempts + 1
          /\ status' = Append(status, Connecting)
          /\ net_pc' = "open"
          /\ UNCHANGED <<net_loop, sched>>
  /\ UNCHANGED <<net_i, net_stop, answers, slept, sendVars, qm, shut, nmsg, nrx,
                 serverVars, audioVars>>

\* variant: an exception that is caught without a status event
RaisedQuiet ==
  /\ status' = status
  /\ net_pc' = "countdown"
  /\ net_i' = 1

\* lines 96-98 and 101: _connect_and_loop raised; the countdown starts
Raised ==
  /\ status' = Append(status, NetworkError)
  /\ net_pc' = "countdown"
  /\ net_i' = 1

\* line 130 raises: the server refuses the connection, or the handshake fails
OpenRefused ==
  /\ net_pc = "open"
  /\ answers' = Append(answers, "refuse")
  /\ Raised
  /\ UNCHANGED <<net_stop, attempts, slept, net_loop, sendVars, sched, qm, shut, nmsg, nrx,
                 serverVars, audioVars>>

\* lines 186-203: the send task is cancelled and awaited, then the status is emitted
\* and the writer closed.  A send task that ended with an exception raises it at 188.
Teardown(k) ==
  IF send[k] = "failed"
  THEN /\ Raised
       /\ UNCHANGED <<send, link>>
  ELSE /\ status' = Append(status, ServerClosed)
       /\ net_pc' = "countdown"
       /\ net_i' = 1
       /\ send' = [send EXCEPT ![k] = "done"]
       /\ link' = [link EXCEPT ![k] = "closed"]

\* variant: a hello that is not written before the send task first runs
OpenedLate(k) == wire

\* lines 138-153: the send task is created and, with no await in between, the hello
\* is written: it is the first line on the writer of connection k
Opened(k) == [wire EXCEPT ![k] = <<Hello>>]

\* lines 130-159: the server accepts; the send task is created, the status emitted,
\* the init line written, and the receive loop waits for a line.  With _stop set the
\* receive loop is skipped (line 157).
OpenAccepted ==
  /\ net_pc = "open"
  /\ answers' = Append(answers, "accept")
  /\ LET k == attempts
     IN  IF net_stop
         THEN /\ status' = status \o <<Connected, ServerClosed>>
              /\ net_pc' = "countdown"
              /\ net_i' = 1
              /\ send' = [send EXCEPT ![k] = "done"]
              /\ link' = [link EXCEPT ![k] = "closed"]
              /\ wire' = Opened(k)
         ELSE /\ status' = Append(status, Connected)
              /\ net_pc' = "rx"
              /\ send' = [send EXCEPT ![k] = "new"]
              /\ link' = [link EXCEPT ![k] = "up"]
              /\ wire' = Opened(k)
              /\ UNCHANGED net_i
  /\ UNCHANGED <<net_stop, attempts, slept, net_loop, outbound_queue, sched, qm, shut, nmsg,
                 nrx, serverVars, audioVars>>

\* lines 157-183: a line arrives and is handled (an audio packet is passed to the
\* audio engine, a userlist or chat message to the GUI); with _stop set the loop ends
RxLine ==
  /\ net_pc = "rx"
  /\ nrx < MaxRx
  /\ nrx' = nrx + 1
  /\ IF net_stop
     THEN Teardown(LastOpened)
     ELSE UNCHANGED <<net_pc, net_i, status, send, link>>
  /\ UNCHANGED <<net_stop, attempts, answers, slept, net_loop, wire, outbound_queue, sched,
                 qm, shut, nmsg, serverVars, audioVars>>

\* variant: a read timeout that goes on waiting whatever _stop says
TimeoutIgnoresStop(k) ==
  UNCHANGED <<net_pc, net_i, status, send, link>>

\* lines 157-161: wait_for times out after 1 s; `continue` goes back to the loop test
Timeout(k) ==
  IF net_stop
  THEN Teardown(k)
  ELSE UNCHANGED <<net_pc, net_i, status, send, link>>

RxTimeout ==
  /\ net_pc = "rx"
  /\ nrx < MaxRx \/ (net_stop /\ nrx <= MaxRx)
  /\ nrx' = nrx + 1
  /\ Timeout(LastOpened)
  /\ UNCHANGED <<net_stop, attempts, answers, slept, net_loop, wire, outbound_queue, sched,
                 qm, shut, nmsg, serverVars, audioVars>>

\* lines 157-203: readline returns b"" (the server closed the connection, or the
\* writer was closed by stop()); the connection is closed and _connect_and_loop returns
RxEnds ==
  /\ net_pc = "rx"
  /\ Teardown(LastOpened)
  /\ UNCHANGED <<net_stop, attempts, answers, slept, net_loop, wire, outbound_queue, sched,
                 qm, shut, nmsg, nrx, serverVars, audioVars>>

\* lines 159-181: readline, json.loads or a handler of the message raises in the
\* receive loop; lines 186-201 are not reached
RxRaises ==
  /\ net_pc = "rx"
  /\ ~net_stop
  /\ Raised
  /\ UNCHANGED <<net_stop, attempts, answers, slept, net_loop, sendVars, sched, qm, shut,
                 nmsg, nrx, serverVars, audioVars>>

\* lines 101-105: one turn of the countdown, up to the sleep
CountdownStep ==
  /\ net_pc = "countdown"
  /\ IF net_stop
     THEN Returned /\ UNCHANGED status
     ELSE /\ status' = Append(status, Reconnecting(Countdown[net_i]))
          /\ net_pc' = "sleep"
          /\ UNCHANGED <<net_loop, sched>>
  /\ UNCHANGED <<net_i, net_stop, attempts, answers, slept, sendVars, qm, shut, nmsg, nrx,
                 serverVars, audioVars>>

\* line 105: asyncio.sleep(1) is over
Slept ==
  /\ net_pc = "sleep"
  /\ slept' = slept + 1
  /\ IF net_i < Len(Countdown)
     THEN net_i' = net_i + 1 /\ net_pc' = "countdown"
     ELSE net_i' = 0 /\ net_pc' = "loop"
  /\ UNCHANGED <<net_stop, status, attempts, answers, net_loop, sendVars, sched, qm, shut,
                 nmsg, nrx, serverVars, audioVars>>

\* lines 233-241 and 258: stop() is called from the GUI thread; with a loop it
\* schedules shutdown() on it
Stop ==
  /\ ~net_stop
  /\ net_pc # "returned"
  /\ net_stop' = TRUE
  /\ shut' = IF net_loop THEN "due" ELSE shut
  /\ UNCHANGED <<net_pc, net_i, status, attempts, answers, slept, net_loop, sendVars, sched,
                 qm, nmsg, nrx, serverVars, audioVars>>

\* lines 242-256: shutdown() runs on the loop: the send task is cancelled, the writer
\* closed and the poison pill put in the queue
Shutdown ==
  /\ shut = "due"
  /\ net_loop /\ AtAwait
  /\ shut' = "done"
  /\ LET k == LastOpened
     IN  /\ send' = [j \in Attempts |->
                      IF j = k /\ send[j] \in {"new", "get"} THEN "done" ELSE send[j]]
         /\ link' = [j \in Attempts |-> IF j = k /\ link[j] = "up" THEN "closed" ELSE link[j]]
  /\ outbound_queue' = Append(outbound_queue, StopMsg)
  /\ UNCHANGED <<net_pc, net_i, net_stop, status, attempts, answers, slept, net_loop, wire,
                 sched, qm, nmsg, nrx, serverVars, audioVars>>

(* ----------------------- queue_message and the send loop ---------------- *)
\* variant: queue_message that looks at the loop only
LoopAlone == net_loop

\* line 228: `if self._loop and not self._stop`
Accepting == net_loop /\ ~net_stop

\* lines 223-228: a producer calls queue_message; a call that finds the session
\* stopped or without a loop returns at once
QmCall(type, by) ==
  /\ qm = NoCall
  /\ nmsg < MaxMsgs
  /\ nmsg' = nmsg + 1
  /\ qm' = IF Accepting THEN [m |-> OutMsg(type, nmsg + 1, net_stop), by |-> by] ELSE qm

\* lines 229-231: run_coroutine_threadsafe schedules outbound_queue.put(msg) on the loop;
\* it raises when the loop has been closed since the test
QmRaises == ~net_loop

QmSchedule ==
  /\ qm' = NoCall
  /\ sched' = IF QmRaises THEN sched ELSE Append(sched, qm.m)

\* the GUI thread sends a chat message
GuiCall ==
  /\ QmCall("chat", "gui")
  /\ UNCHANGED <<netVars, net_loop, sendVars, sched, shut, nrx, serverVars, audioVars>>

GuiSchedule ==
  /\ qm.by = "gui"
  /\ QmSchedule
  /\ UNCHANGED <<netVars, net_loop, sendVars, shut, nmsg, nrx, serverVars, audioVars>>

\* the loop runs a scheduled outbound_queue.put(msg): the queue is unbounded (line 72)
LoopPut ==
  /\ sched # << >>
  /\ net_loop /\ AtAwait
  /\ outbound_queue' = Append(outbound_queue, Head(sched))
  /\ sched' = Tail(sched)
  /\ UNCHANGED <<netVars, net_loop, send, link, wire, qm, shut, nmsg, nrx, serverVars,
                 audioVars>>

\* lines 206-207: the send task of connection k runs for the first time
SendBegin(k) ==
  /\ send[k] = "new"
  /\ net_loop /\ AtAwait
  /\ send' = [send EXCEPT ![k] = IF net_stop THEN "done" ELSE "get"]
  /\ UNCHANGED <<netVars, net_loop, link, wire, outbound_queue, sched, qm, shut, nmsg, nrx,
                 serverVars, audioVars>>

\* lines 207-218: the send task of connection k takes a message from the queue; the
\* poison pill ends it, another message is written to its writer; a write to a
\* connection that is closed or lost raises in drain and ends the task
SendGet(k, lost) ==
  /\ send[k] = "get"
  /\ net_loop /\ AtAwait
  /\ outbound_queue # << >>
  /\ outbound_queue' = Tail(outbound_queue)
  /\ LET msg == Head(outbound_queue)
     IN  IF msg.type = "stop"
         THEN /\ send' = [send EXCEPT ![k] = "done"]
              /\ UNCHANGED wire
         ELSE IF link[k] # "up" \/ lost
         THEN /\ send' = [send EXCEPT ![k] = "failed"]
              /\ UNCHANGED wire
         ELSE /\ wire' = [wire EXCEPT ![k] = Append(@, msg)]
              /\ send' = [send EXCEPT ![k] = IF net_stop THEN "done" ELSE "get"]
  /\ UNCHANGED <<netVars, net_loop, link, sched, qm, shut, nmsg, nrx, serverVars, audioVars>>

(* --------------------------- the audio engine --------------------------- *)
\* lines 46-49: the canonical frame
SAMPLE_RATE == 48000
FRAME_DURATION_MS == 20
FRAME_SIZE == (SAMPLE_RATE * FRAME_DURATION_MS) \div 1000

\* line 111: the rates _find_compatible_samplerate tries in turn, and (lines 120-122)
\* default rates of devices that take none of them
CandidateRates == <<48000, 44100, 32000, 16000, 8000>>
DefaultRates == {11025, 22050, 96000}
DeviceRates == {CandidateRates[i] : i \in 1..Len(CandidateRates)} \cup DefaultRates

\* line 88: vox_threshold = 0.01, and the RMS of a capture frame, in hundredths of
\* a sample step: a silent frame and a frame with one sample set
VOX_THRESHOLD == 1
RmsLevels == {0, 4}

\* the steps of the capture callback that can raise: samplerate.resample (line 299)
\* and encoder.encode (308) in the try block, and the same two calls in the handler
\* (329, 340); run_coroutine_threadsafe (network.py:229) is QmRaises.  Lines 263-289
\* are numpy arithmetic on the block PortAudio hands over and signal emissions.
FailSteps == {"resample", "encode", "resample2", "encode2"}

\* an encoded packet in hex as the playback side gets it: n numbers the packets,
\* kind says whether bytes.fromhex and decoder.decode accept it, samples is the number
\* of samples the packet holds (a peer's packet holds a canonical frame); in outdata,
\* samples is the length of the block decoder.decode returned
Packet(n, kind) ==
  [n |-> n, kind |-> kind, samples |-> IF kind = "good" THEN FRAME_SIZE ELSE 0]
PacketKinds == {"good", "badhex", "badopus"}

\* what the playback callback left in outdata
Silence == Packet(0, "silence")
NoOutput == Packet(0, "none")

\* the capture callback is not running, or is inside queue_message
\* (muted: it returned at line 257; failed: it entered the handler of line 321;
\* escaped: an exception left it)
Idle == [pc |-> "idle", fail |-> {}, muted |-> FALSE, failed |-> FALSE, escaped |-> FALSE]

\* lines 67-89, with the default settings of lines 73-74
AudioInit ==
  /\ mic_muted = FALSE
  /\ spk_muted = FALSE
  /\ ptt_pressed = FALSE
  /\ ptt_enabled = FALSE
  /\ vox_enabled = FALSE
  /\ vox_active = FALSE
  /\ loopback_enabled = FALSE
  /\ resample_input = FALSE
  /\ dev_in_rate = SAMPLE_RATE
  /\ incoming_audio_queue = << >>
  /\ voxActivity = << >>
  /\ inputLevel = << >>
  /\ cb = Idle
  /\ mode_pc = "none"
  /\ outdata = NoOutput
  /\ ncb = 0
  /\ npk = 0
  /\ nout = 0

\* lines 67-89 and 183: any stored settings, any device rate
AudioSettingsInit ==
  /\ mic_muted = FALSE
  /\ spk_muted = FALSE
  /\ ptt_pressed = FALSE
  /\ ptt_enabled \in BOOLEAN
  /\ vox_enabled \in BOOLEAN
  /\ vox_active = FALSE
  /\ loopback_enabled = FALSE
  /\ resample_input \in BOOLEAN
  /\ dev_in_rate = IF resample_input THEN CandidateRates[2] ELSE SAMPLE_RATE
  /\ incoming_audio_queue = << >>
  /\ voxActivity = << >>
  /\ inputLevel = << >>
  /\ cb = Idle
  /\ mode_pc = "none"
  /\ outdata = NoOutput
  /\ ncb = 0
  /\ npk = 0
  /\ nout = 0

\* lines 172-183: start() has probed the device: any rate, the loopback off
AudioRatesInit ==
  /\ mic_muted = FALSE
  /\ spk_muted = FALSE
  /\ ptt_pressed = FALSE
  /\ ptt_enabled = FALSE
  /\ vox_enabled = FALSE
  /\ vox_active = FALSE
  /\ loopback_enabled = FALSE
  /\ dev_in_rate \in DeviceRates
  /\ resample_input = (dev_in_rate # SAMPLE_RATE)
  /\ incoming_audio_queue = << >>
  /\ voxActivity = << >>
  /\ inputLevel = << >>
  /\ cb = Idle
  /\ mode_pc = "none"
  /\ outdata = NoOutput
  /\ ncb = 0
  /\ npk = 0
  /\ nout = 0

Init == ServerInit /\ ClientInit /\ AudioInit
InitRates == ServerInit /\ ClientInit /\ AudioRatesInit

\* the same with any stored settings, and with a device that does not run at 48 kHz
InitSettings == ServerInit /\ ClientInit /\ AudioSettingsInit
InitResampling == InitSettings /\ resample_input = TRUE

\* The capture callback's own state as one record, so that its steps compose.
Capture ==
  [vox_active |-> vox_active, voxActivity |-> voxActivity, inputLevel |-> inputLevel,
   incoming_audio_queue |-> incoming_audio_queue, qm |-> qm, nmsg |-> nmsg,
   fail |-> {}, muted |-> FALSE, failed |-> FALSE, escaped |-> FALSE, pc |-> "idle"]

\* variant: a gate that compares the wrong way round
GateBelow(rms) == rms <= VOX_THRESHOLD

\* line 274
Gate(rms) == rms >= VOX_THRESHOLD

\* lines 189-190: the block of a capture callback and the frame of the codec
dev_in_frames == (dev_in_rate * FRAME_DURATION_MS) \div 1000
opus_frames == (SAMPLE_RATE * FRAME_DURATION_MS) \div 1000

\* lines 299 and 329: samplerate.resample(pcm, 48000 / rate): int(n * ratio) samples
Resampled(n, rate) == (n * SAMPLE_RATE) \div rate

\* lines 298-306: the length of pcm_int16
CaptureLen ==
  IF resample_input THEN Resampled(dev_in_frames, dev_in_rate) ELSE dev_in_frames

\* variant: an encoder that takes the whole block, whatever its length
OpusEncodeBlock(n, len, frame_size) == [n |-> n, kind |-> "good", samples |-> len]

\* lines 308 and 340: encoder.encode(pcm, frame_size) hands libopus the start of the
\* block and frame_size: the packet holds frame_size samples whatever the length of
\* the block (samples past the end of a short block have any value)
OpusEncode(n, len, frame_size) == [n |-> n, kind |-> "good", samples |-> frame_size]

\* lines 315-319 and 350-354: the loopback copy; the queue is unbounded (line 81)
Loopback(A) ==
  IF loopback_enabled
  THEN [A EXCEPT !.incoming_audio_queue =
                   Append(@, OpusEncode(A.nmsg, CaptureLen, opus_frames))]
  ELSE A

\* lines 309-312 and 341-344: queue_message up to its test; a call that passes the
\* test is left in qm, the callback goes on at CbSchedule
CallQueueMessage(A, by) ==
  IF Accepting
  THEN [A EXCEPT !.nmsg = @ + 1, !.pc = "put",
                 !.qm = [m |-> OutMsg("audio", A.nmsg + 1, net_stop), by |-> by]]
  ELSE Loopback([A EXCEPT !.nmsg = @ + 1])

\* line 321-354: the handler logs, then resamples, encodes and queues the frame again;
\* what raises here leaves the callback
Handler(A) ==
  LET B == [A EXCEPT !.failed = TRUE]
  IN  IF (resample_input /\ "resample2" \in A.fail) \/ "encode2" \in A.fail
      THEN [B EXCEPT !.escaped = TRUE]
      ELSE CallQueueMessage(B, "handler")

\* lines 298-312: resample, encode, queue
Encode(A) ==
  IF (resample_input /\ "resample" \in A.fail) \/ "encode" \in A.fail
  THEN Handler(A)
  ELSE CallQueueMessage(A, "try")

\* variant: a Push-to-Talk gate that is always open
PttOpen == FALSE

\* lines 267-271 and 292-296
PttBlocks == ptt_enabled /\ ~ptt_pressed

\* variant: the level is emitted before the gate
LevelFirst(A, rms) ==
  LET B == [A EXCEPT !.inputLevel = Append(@, rms)]
  IN  IF ptt_enabled
      THEN IF PttBlocks THEN B ELSE Encode(B)
      ELSE IF vox_enabled
      THEN LET new_vox == Gate(rms)
               C == IF new_vox # A.vox_active
                    THEN [B EXCEPT !.vox_active = new_vox,
                                   !.voxActivity = Append(@, new_vox)]
                    ELSE B
           IN  IF ~new_vox THEN C ELSE Encode(C)
      ELSE Encode(B)

\* lines 266-296: the gate, then the level event
Gated(A, rms) ==
  IF ptt_enabled
  THEN IF PttBlocks THEN A
       ELSE Encode([A EXCEPT !.inputLevel = Append(@, rms)])
  ELSE IF vox_enabled
  THEN LET new_vox == Gate(rms)
           B == IF new_vox # A.vox_active
                THEN [A EXCEPT !.vox_active = new_vox, !.voxActivity = Append(@, new_vox)]
                ELSE A
       IN  IF ~new_vox THEN B
           ELSE Encode([B EXCEPT !.inputLevel = Append(@, rms)])
  ELSE LET B == IF A.vox_active
                THEN [A EXCEPT !.vox_active = FALSE, !.voxActivity = Append(@, FALSE)]
                ELSE A
       IN  Encode([B EXCEPT !.inputLevel = Append(@, rms)])

\* variant: a callback that does not look at mic_muted
NeverMuted == FALSE

\* line 255
Muted == mic_muted

\* lines 254-322: the callback up to its return or to the test of queue_message
InputCallbackBody(rms, fail) ==
  LET A == [Capture EXCEPT !.fail = fail]
  IN  IF Muted THEN [A EXCEPT !.muted = TRUE] ELSE Gated(A, rms)

\* the callback's writes
CaptureBecomes(A) ==
  /\ vox_active' = A.vox_active
  /\ voxActivity' = A.voxActivity
  /\ inputLevel' = A.inputLevel
  /\ incoming_audio_queue' = A.incoming_audio_queue
  /\ qm' = A.qm
  /\ nmsg' = A.nmsg
  /\ cb' = [pc |-> A.pc, fail |-> IF A.pc = "put" THEN A.fail ELSE {}, muted |-> A.muted,
            failed |-> A.failed, escaped |-> A.escaped]

\* the audio thread calls _input_callback with a frame
InputCallback(rms, fail) ==
  /\ cb.pc = "idle"
  /\ qm = NoCall
  /\ ncb < MaxCallbacks
  /\ ncb' = ncb + 1
  /\ LET A == InputCallbackBody(rms, fail)
     IN  /\ A.nmsg <= MaxMsgs
         /\ CaptureBecomes(A)
  /\ UNCHANGED <<netVars, net_loop, sendVars, sched, shut, nrx, serverVars, mic_muted,
                 spk_muted, ptt_pressed, ptt_enabled, vox_enabled, loopback_enabled,
                 resample_input, mode_pc, outdata, npk, nout, dev_in_rate>>

\* lines 229-231 inside the callback, and the rest of it: in the try block a raising
\* run_coroutine_threadsafe enters the handler, in the handler it leaves the callback
CbSchedule ==
  /\ cb.pc = "put"
  /\ LET A == [Capture EXCEPT !.fail = cb.fail, !.failed = cb.failed, !.qm = NoCall]
         B == IF ~QmRaises THEN Loopback(A)
              ELSE IF qm.by = "try" THEN Handler(A)
              ELSE [A EXCEPT !.escaped = TRUE]
     IN  /\ B.nmsg <= MaxMsgs
         /\ CaptureBecomes(B)
  /\ sched' = IF QmRaises THEN sched ELSE Append(sched, qm.m)
  /\ UNCHANGED <<netVars, net_loop, sendVars, shut, nrx, serverVars, mic_muted, spk_muted,
                 ptt_pressed, ptt_enabled, vox_enabled, loopback_enabled, resample_input,
                 mode_pc, outdata, ncb, npk, nout, dev_in_rate>>

(* ------------------------------ the setters ----------------------------- *)
AudioUnchanged ==
  UNCHANGED <<serverVars, netVars, txVars, vox_active, incoming_audio_queue, voxActivity,
              inputLevel, cb, outdata, ncb, npk, nout, resample_input, dev_in_rate>>

\* lines 477-480
set_mic_muted(muted) ==
  /\ mic_muted # muted
  /\ mic_muted' = muted
  /\ UNCHANGED <<spk_muted, ptt_pressed, ptt_enabled, vox_enabled, loopback_enabled, mode_pc>>
  /\ AudioUnchanged

\* lines 482-485
set_spk_muted(muted) ==
  /\ spk_muted # muted
  /\ spk_muted' = muted
  /\ UNCHANGED <<mic_muted, ptt_pressed, ptt_enabled, vox_enabled, loopback_enabled, mode_pc>>
  /\ AudioUnchanged

\* lines 450-454
set_ptt_pressed(pressed) ==
  /\ ptt_pressed # pressed
  /\ ptt_pressed' = pressed
  /\ UNCHANGED <<mic_muted, spk_muted, ptt_enabled, vox_enabled, loopback_enabled, mode_pc>>
  /\ AudioUnchanged

\* lines 457-463
set_loopback_enabled(enabled) ==
  /\ loopback_enabled # enabled
  /\ loopback_enabled' = enabled
  /\ UNCHANGED <<mic_muted, spk_muted, ptt_pressed, ptt_enabled, vox_enabled, mode_pc>>
  /\ AudioUnchanged

\* the modes of set_audio_mode; any other string is taken as Push to Talk (line 443)
Modes == {"Open Mic", "Push to Talk", "Voice Activated"}

\* lines 433-446: set_audio_mode writes ptt_enabled, then vox_enabled; the callbacks
\* do not take the lock and may run between the two writes
SetModePtt(mode) ==
  /\ mode_pc = "none"
  /\ ptt_enabled' = (mode = "Push to Talk")
  /\ mode_pc' = mode
  /\ UNCHANGED <<mic_muted, spk_muted, ptt_pressed, vox_enabled, loopback_enabled>>
  /\ AudioUnchanged

SetModeVox ==
  /\ mode_pc # "none"
  /\ vox_enabled' = (mode_pc = "Voice Activated")
  /\ mode_pc' = "none"
  /\ UNCHANGED <<mic_muted, spk_muted, ptt_pressed, ptt_enabled, loopback_enabled>>
  /\ AudioUnchanged

\* lines 487-489
set_ptt_enabled(enabled) ==
  /\ ptt_enabled # enabled
  /\ ptt_enabled' = enabled
  /\ UNCHANGED <<mic_muted, spk_muted, ptt_pressed, vox_enabled, loopback_enabled, mode_pc>>
  /\ AudioUnchanged

\* lines 491-493
set_vox_enabled(enabled) ==
  /\ vox_enabled # enabled
  /\ vox_enabled' = enabled
  /\ UNCHANGED <<mic_muted, spk_muted, ptt_pressed, ptt_enabled, loopback_enabled, mode_pc>>
  /\ AudioUnchanged

(* -------------------------------- playback ------------------------------ *)
\* line 81: asyncio.Queue() is built with maxsize 0, which asyncio takes as no limit
maxsize == 0

\* asyncio.Queue.full()
Full(q) == maxsize > 0 /\ Len(q) >= maxsize

\* lines 386-395: a packet from the receive loop is queued for playback
queue_incoming_audio(kind) ==
  /\ npk < MaxPackets
  /\ npk' = npk + 1
  /\ incoming_audio_queue' = IF Full(incoming_audio_queue) THEN incoming_audio_queue
                             ELSE Append(incoming_audio_queue, Packet(npk + 1, kind))
  /\ UNCHANGED <<serverVars, netVars, txVars, mic_muted, spk_muted, ptt_pressed, ptt_enabled,
                 vox_enabled, vox_active, loopback_enabled, resample_input, voxActivity,
                 inputLevel, cb, mode_pc, outdata, ncb, nout, dev_in_rate>>

\* variant: a failed packet makes the callback take the next one at once
DecodedNext(q) ==
  IF q = << >> THEN Silence
  ELSE IF Head(q).kind = "good" THEN Head(q)
  ELSE IF Len(q) > 1 /\ q[2].kind = "good" THEN q[2]
  ELSE Silence

\* lines 366-382: what the callback writes for the queue it finds: silence for no
\* packet, for one that is not hex or that decoder.decode refuses (as it does a packet
\* of more than FRAME_SIZE samples), and (line 378) for a block that does not fill
\* outdata; else the block
Decoded(q) ==
  IF q = << >> THEN Silence
  ELSE IF Head(q).kind = "good" /\ Head(q).samples <= FRAME_SIZE
  THEN IF Head(q).samples = opus_frames THEN Head(q)
       ELSE [Head(q) EXCEPT !.kind = "silence"]
  ELSE Silence

\* lines 359-382: the audio thread calls _output_callback
OutputCallback ==
  /\ nout < MaxCallbacks
  /\ nout' = nout + 1
  /\ IF spk_muted
     THEN outdata' = Silence /\ UNCHANGED incoming_audio_queue
     ELSE /\ outdata' = Decoded(incoming_audio_queue)
          /\ incoming_audio_queue' = IF incoming_audio_queue = << >> THEN << >>
                                     ELSE Tail(incoming_audio_queue)
  /\ UNCHANGED <<serverVars, netVars, txVars, mic_muted, spk_muted, ptt_pressed, ptt_enabled,
                 vox_enabled, vox_active, loopback_enabled, resample_input, voxActivity,
                 inputLevel, cb, mode_pc, ncb, npk, dev_in_rate>>

(* ------------------------ the client on the server --------------------- *)
\* the text of the chat message, or the packet of the audio message, of the n-th
\* queue_message call, and the call a text or packet comes from
Content(n) == IF n = 1 THEN "s:1" ELSE IF n = 2 THEN "s:2" ELSE IF n = 3 THEN "s:3" ELSE "s:4"
CallOf(v) == IF v = "s:1" THEN 1 ELSE IF v = "s:2" THEN 2 ELSE IF v = "s:3" THEN 3 ELSE 4

\* network.py:153 and 216: the line json.dumps(msg) + "\n" of a message of the client
LineOf(m) ==
  CASE m.type = "init" -> InitLine
    [] m.type = "chat" -> [ChatLine EXCEPT !.text = Content(m.n)]
    [] OTHER -> [AudioLine EXCEPT !.data = Content(m.n)]

\* the server's connection for the k-th attempt of the client, when one peer has
\* connected before it and every attempt is accepted
ConnOf(k) == k + 1

\* network.py:130 and server.py:163-199: the server accepts the attempt under way
PathAccept(cert) ==
  /\ net_pc = "open"
  /\ ConnOf(attempts) \in Conns
  /\ Accept(ConnOf(attempts), IpNames[1], cert)

\* open_connection returns once the server has accepted
PathOpened ==
  /\ ConnOf(attempts) \in Conns
  /\ frame[ConnOf(attempts)].pc # "idle"
  /\ OpenAccepted

\* server.py:227: the handler reads the next line the client wrote on connection k
PathRecv(k) ==
  LET c == ConnOf(k)
  IN  /\ c \in Conns
      /\ conn[c].got < Len(wire[k])
      /\ ReadLine(c, LineOf(wire[k][conn[c].got + 1]))

(* --------------------------- specifications ----------------------------- *)
(* Access control: connections with any certificate from any address, drains     *)
(* that suspend, the clock and the cleaner, which runs as soon as its sleep is   *)
(* over.  No peer sends a line or leaves.                                        *)
NextAuth ==
  \/ \E c \in 1..NPeers : \E ip \in IpChoices : \E cert \in CertChoices :
        Accept(c, ip, cert)
  \/ \E t \in Tasks : Resume(t)
  \/ BlocklistCleaner
  \/ Tick(MaxTime) /\ ~CleanerDue

SpecAuth == Init /\ [][NextAuth]_vars

(* Whitelist files: the access-control runs of a server started on either        *)
(* whitelist file.                                                               *)
InitAnyFile == ServerInitAnyFile /\ ClientInit /\ AudioInit

SpecWhitelist == InitAnyFile /\ [][NextAuth]_vars

(* Capacity: whitelisted peers from one address connect and leave; drains        *)
(* suspend and the clock stands still.                                           *)
NextCapacity ==
  \/ \E c \in Conns : \E cert \in CertChoices \cap cn_whitelist :
        Accept(c, IpNames[1], cert)
  \/ \E c \in Conns : NetDown(c, "reset")
  \/ \E c \in Conns : HandlerEOF(c)
  \/ \E t \in Tasks : Resume(t)

SpecCapacity == Init /\ [][NextCapacity]_vars

(* Protocol: whitelisted peers from one address send lines of every shape and   *)
(* leave; no drain suspends and the clock stands still.                          *)
NextProto ==
  \/ \E c \in 1..NPeers : \E cert \in CertChoices \cap cn_whitelist :
        Accept(c, IpNames[1], cert) /\ nsusp' = nsusp
  \/ \E c \in Conns : \E line \in Lines : Recv(c, line) /\ nsusp' = nsusp
  \/ \E c \in Conns : NetDown(c, "reset")
  \/ \E c \in Conns : HandlerEOF(c) /\ nsusp' = nsusp

SpecProto == Init /\ [][NextProto]_vars

(* Relay: whitelisted peers from one address send audio, chat and overlong lines *)
(* and leave, connections are lost, drains suspend; the clock stands still.      *)
RelayLines == {AudioLine, ChatLine, TooLongLine, LongestLine}

NextRelay ==
  \/ \E c \in 1..NPeers : \E cert \in CertChoices \cap cn_whitelist :
        Accept(c, IpNames[1], cert)
  \/ \E c \in Conns : \E line \in RelayLines : Recv(c, line)
  \/ \E c \in Conns : \E kind \in {"reset", "error"} : NetDown(c, kind)
  \/ \E c \in Conns : HandlerEOF(c)
  \/ \E t \in Tasks : Resume(t)

SpecRelay == Init /\ [][NextRelay]_vars

(* Voice: two whitelisted peers connect and send audio, the watcher runs, drains *)
(* suspend; the watcher runs as soon as its sleep is over and a suspended task   *)
(* is resumed before the clock moves on.                                         *)
NextVoice ==
  \/ \E c \in 1..2 : \E cert \in CertChoices \cap cn_whitelist :
        Accept(c, IpNames[1], cert)
  \/ \E c \in Conns : Recv(c, AudioLine)
  \/ \E t \in Tasks : Resume(t)
  \/ VoiceWatcher
  \/ Tick(MaxVoiceTime) /\ ~WatcherDue /\ \A t \in Tasks : ~Suspended(t)

SpecVoice == Init /\ [][NextVoice]_vars

(* Snapshots: whitelisted peers connect while no task is suspended, and send      *)
(* audio and status lines; drains suspend; nobody leaves and the clock stands     *)
(* still, so the registry does not change size under a suspended broadcast.       *)
NextSnapshots ==
  \/ \E c \in 1..NPeers : \E cert \in CertChoices \cap cn_whitelist :
        /\ \A t \in Tasks : ~Suspended(t)
        /\ Accept(c, IpNames[1], cert) /\ nsusp' = nsusp
  \/ \E c \in Conns : \E line \in {AudioLine, StatusLine} : Recv(c, line)
  \/ \E t \in Tasks : Resume(t)

SpecSnapshots == Init /\ [][NextSnapshots]_vars

(* Client: the network session against a server that refuses or accepts each     *)
(* attempt and may close an accepted connection.                                  *)
NextClient ==
  \/ Start
  \/ NetLoop
  \/ OpenRefused
  \/ OpenAccepted
  \/ RxEnds
  \/ RxRaises
  \/ CountdownStep
  \/ Slept
  \/ Stop
  \/ Shutdown
  \/ RxLine
  \/ RxTimeout
  \/ GuiCall
  \/ GuiSchedule
  \/ LoopPut
  \/ \E k \in Attempts : SendBegin(k)
  \/ \E k \in Attempts, lost \in BOOLEAN : SendGet(k, lost)

SpecClient == Init /\ [][NextClient]_vars

(* Session: the same, with the steps that the session takes by itself taken       *)
(* sooner or later: the thread runs, open_connection ends with a connection or an *)
(* error, the read timeout and the sleeps run out.                                *)
Session ==
  Start \/ NetLoop \/ OpenRefused \/ OpenAccepted \/ RxTimeout \/ CountdownStep \/ Slept

SpecSession == Init /\ [][NextClient]_vars /\ WF_vars(Session)

(* Capture: the audio thread delivers frames of every level, resample and encode  *)
(* may raise, the GUI sets the mute, the mode, the key and the loopback; the       *)
(* session is started at some point and not stopped; the device does not run at   *)
(* 48 kHz.                                                                        *)
NextCapture ==
  \/ \E rms \in RmsLevels, fail \in SUBSET FailSteps : InputCallback(rms, fail)
  \/ CbSchedule
  \/ \E b \in BOOLEAN : set_mic_muted(b)
  \/ \E b \in BOOLEAN : set_ptt_pressed(b)
  \/ \E b \in BOOLEAN : set_loopback_enabled(b)
  \/ \E mode \in Modes : SetModePtt(mode)
  \/ SetModeVox
  \/ Start

SpecCapture == InitResampling /\ [][NextCapture]_vars

(* Faults: the same frames and failures in the mode of the stored settings, while  *)
(* the session is started and stopped and its server never answers.               *)
NextFaults ==
  \/ \E rms \in RmsLevels, fail \in SUBSET FailSteps : InputCallback(rms, fail)
  \/ CbSchedule
  \/ \E b \in BOOLEAN : set_loopback_enabled(b)
  \/ Start
  \/ NetLoop
  \/ Stop

SpecFaults == InitSettings /\ [][NextFaults]_vars

(* Modes: any stored settings; the GUI sets the mode, the two toggles and the key *)
(* in any order while the audio thread delivers frames; nothing raises.          *)
NextModes ==
  \/ \E mode \in Modes : SetModePtt(mode)
  \/ SetModeVox
  \/ \E b \in BOOLEAN : set_ptt_enabled(b)
  \/ \E b \in BOOLEAN : set_vox_enabled(b)
  \/ \E b \in BOOLEAN : set_ptt_pressed(b)
  \/ \E rms \in RmsLevels : InputCallback(rms, {})

SpecModes == InitSettings /\ [][NextModes]_vars

(* Playback: packets of every kind arrive, the audio thread asks for frames, the  *)
(* GUI mutes and unmutes the speaker.                                             *)
NextPlayback ==
  \/ OutputCallback
  \/ \E kind \in PacketKinds : queue_incoming_audio(kind)
  \/ \E b \in BOOLEAN : set_spk_muted(b)

SpecPlayback == Init /\ [][NextPlayback]_vars

(* Codec: a device of any rate; the audio thread delivers capture frames and asks *)
(* for playback frames, the GUI switches the loopback, the session is started at  *)
(* some point; nothing raises and no peer's packet arrives.                       *)
NextCodec ==
  \/ \E rms \in RmsLevels : InputCallback(rms, {})
  \/ CbSchedule
  \/ \E b \in BOOLEAN : set_loopback_enabled(b)
  \/ OutputCallback
  \/ Start

SpecCodec == InitRates /\ [][NextCodec]_vars

(* Path: a peer is connected; the client connects with another certificate, its   *)
(* GUI sends chat messages and its capture callback audio frames, its receive     *)
(* loop may raise, every attempt is accepted; the server reads what the client    *)
(* writes.  No drain suspends, nothing is stopped.                                *)
NextPath ==
  \/ Accept(1, IpNames[1], CnNames[1]) /\ nsusp' = nsusp
  \/ Start
  \/ NetLoop
  \/ PathAccept(CnNames[2]) /\ nsusp' = nsusp
  \/ PathOpened
  \/ RxRaises
  \/ CountdownStep
  \/ Slept
  \/ GuiCall
  \/ GuiSchedule
  \/ InputCallback(4, {})
  \/ CbSchedule
  \/ LoopPut
  \/ \E k \in Attempts : SendBegin(k)
  \/ \E k \in Attempts : SendGet(k, FALSE)
  \/ \E k \in Attempts : PathRecv(k) /\ nsusp' = nsusp

SpecPath == Init /\ [][NextPath]_vars

(* ============================== claims ================================= *)
\* connection c is accepted in this step
Arrives(c) == frame[c].pc = "idle" /\ frame'[c].pc # "idle"

\* the times at which a connection from the address was denied for its identity
DeniedAt(ip) ==
  {conn[d].at : d \in {e \in Accepted : conn[e].ip = ip /\ conn[e].outcome = "denied"}}

Latest(ts) == CHOOSE t \in ts : \A u \in ts : u <= t

\* the address is under a block: its latest denial is less than the block duration ago
UnderBlock(ip) ==
  DeniedAt(ip) # {} /\ now - Latest(DeniedAt(ip)) < SERVER_IP_BLOCK_DURATION

\* C1: a connection whose identity is not whitelisted is refused and never registered,
\* and its address is recorded as blocked at that time; a connection from an address
\* whose latest denial is less than the block duration ago is refused as blocked,
\* whatever its certificate, and leaves the record as it is (it does not extend the
\* block); once the duration has passed a connection is not refused as blocked.
C1_BlockWindow ==
  [][\A c \in Conns :
       /\ conn'[c].outcome \in {"denied", "blocked"} => c \notin Registered(clients')
       /\ Arrives(c) =>
            LET ip == conn'[c].ip
                out == conn'[c].outcome IN
            /\ CertCN(conn'[c].cert) \notin cn_whitelist => out \in {"denied", "blocked"}
            /\ out = "denied" => ip \in DOMAIN blocked_ips' /\ blocked_ips'[ip] = now
            /\ UnderBlock(ip) => out = "blocked" /\ blocked_ips' = blocked_ips
            /\ ~UnderBlock(ip) => out # "blocked"]_vars

\* C1 witness: an address was denied, refused again while blocked, and a connection
\* from it after the block duration was taken on its merits
C1_Witness ==
  \E c, d, e \in Conns :
    /\ conn[c].ip = conn[d].ip /\ conn[d].ip = conn[e].ip
    /\ conn[c].outcome = "denied"
    /\ conn[d].outcome = "blocked" /\ conn[d].at > conn[c].at
    /\ conn[e].outcome \in {"registered", "denied"}
    /\ conn[e].at >= conn[c].at + SERVER_IP_BLOCK_DURATION

\* the users of the snapshots written to the peers or held by a broadcasting task
MsgOwners(m) == {m.users[j].owner : j \in 1..Len(m.users)}

SnapshotOwners ==
  UNION {UNION {MsgOwners(inbox[c][i]) : i \in 1..Len(inbox[c])} : c \in Conns}
    \cup UNION {MsgOwners(frame[t].message) : t \in Tasks}

\* C2: the registry never holds more than MAX_USERS sessions; a connection that passed
\* authentication while the registry was at capacity is closed, is not registered and
\* appears in no user-list snapshot.
C2_Capacity ==
  /\ DictLen(clients) <= MAX_USERS
  /\ \A c \in Conns :
       conn[c].outcome = "full" =>
         /\ conn[c].net = "closed"
         /\ c \notin Registered(clients)
         /\ c \notin SnapshotOwners

\* C2 witness: a whitelisted connection was refused at capacity and snapshots went out
C2_Witness ==
  \E c \in Conns :
    /\ conn[c].outcome = "full"
    /\ conn[c].cert \in cn_whitelist
    /\ DictLen(clients) = MAX_USERS
    /\ SnapshotOwners # {}

(* --------------------------- claims on the relay ------------------------ *)
\* the connection's own session is in the registry
Owns(c) == c \in Registered(clients)

\* live registry entries are what they were
FlagsUnchanged ==
  /\ Len(clients') = Len(clients)
  /\ \A i \in 1..Len(clients) : clients'[i].live => clients'[i] = clients[i]

\* what the step wrote to the peers
Written(d) == SubSeq(inbox'[d], Len(inbox[d]) + 1, Len(inbox'[d]))

\* C4: a line that is not JSON ends the connection: the handler leaves the read loop
\* and the session is removed.
C4_NotJsonCloses ==
  [][\A c \in Conns :
       Recv(c, NotJson) => conn'[c].left # "no" /\ c \notin Registered(clients')]_vars

\* C9: when a handler ends, the only registry entry removed is the one of its own
\* connection.
C9_RemovesOwnEntryOnly ==
  [][\A c \in Conns :
       conn[c].left = "no" /\ conn'[c].left # "no" =>
         Registered(clients) \ Registered(clients') \subseteq {c}]_vars

\* the lines whose type is missing or is none of the given types
OfOtherType(types) == {l \in Lines : l.json /\ l.type \notin types}

\* the handler of c ends on this line: it leaves the loop, relays the line to nobody
\* and changes no entry of the registry other than removing its own key
Rejects(c, why) ==
  /\ conn'[c].left \in why
  /\ frame'[c].pc \notin {"read", "rel_next", "rel_drain"}
  /\ \A d \in Conns : \A i \in 1..Len(Written(d)) : Written(d)[i].type = "userlist"
  /\ FlagsUnchanged
  /\ ~HasKey(clients', frame[c].cn)

C5_LengthLimit ==
  [][\A c \in Conns :
       /\ Recv(c, TooLongLine) =>
            /\ Rejects(c, {"too long"})
            /\ \A d \in Conns : \A i \in 1..Len(Written(d)) :
                 c \notin MsgOwners(Written(d)[i])
       /\ Recv(c, LongestLine) => conn'[c].left = "no"
       /\ conn'[c].left = "too long" =>
            /\ c \notin Registered(clients')
            /\ c \notin MsgOwners(frame'[c].message)]_vars

\* C5 witness: a line of 4096 bytes was relayed, a longer one ended the connection,
\* and the remaining peer was sent a snapshot without the sender
C5_Witness ==
  \E c, d \in Conns :
    /\ conn[c].left = "too long" /\ conn[c].net = "closed" /\ frame[c].pc = "done"
    /\ d # c /\ Owns(d)
    /\ \E i \in 1..Len(inbox[d]) : inbox[d][i].body.len = LINE_LIMIT /\ inbox[d][i].src = c
    /\ inbox[d] # << >>
    /\ LET last == inbox[d][Len(inbox[d])] IN
       last.type = "userlist" /\ MsgOwners(last) = {d}

\* the handler of c passes from the line's snapshot broadcast to its relay and ends
\* the relay in this step
Relays(c, line) ==
  /\ frame'[c].pc = "read"
  /\ \/ Recv(c, line)
     \/ frame[c].pc = "bul_next" /\ frame[c].data.body = line /\ Resume(c)

\* the number of the line the handler of c is on
LineNo(c) == IF frame[c].pc = "read" THEN nlines + 1 ELSE frame[c].data.n

\* C3: an audio message from a registered peer is written to every other peer
\* registered when it is relayed, and to nobody else.
C3_AudioToAllOthers ==
  [][\A c \in Conns :
       Relays(c, AudioLine) /\ Owns(c) =>
         \A d \in Conns :
           (\E i \in 1..Len(Written(d)) : Written(d)[i].n = LineNo(c))
             <=> (d # c /\ Owns(d) /\ conn[d].net = "up")]_vars

\* C8: when a write to one recipient of a broadcast fails, the other recipients are
\* still written, nobody but the failed recipient leaves the registry, and the sender
\* goes on.
C8_FailureIsLocal ==
  [][\A c \in Conns :
       /\ Recv(c, ChatLine)
       /\ Owns(c)
       /\ frame'[c].pc = "read"
       /\ \E d \in Registered(clients) : conn[d].net # "up"
       => /\ \A d \in Registered(clients) \ {c} :
               conn[d].net = "up" =>
                 \E i \in 1..Len(Written(d)) : Written(d)[i].n = nlines + 1
          /\ Registered(clients) \ Registered(clients')
               \subseteq {d \in Conns : conn[d].net # "up"}
          /\ c \in Registered(clients')]_vars

(* ------------------------- claims on the tx flag ------------------------ *)
\* the registry entry of connection c
EntryOf(cl, c) == cl[CHOOSE i \in 1..Len(cl) : cl[i].live /\ cl[i].writer = c]

\* C7: once an audio message of a registered peer is processed its tx flag is set and
\* the snapshot the message triggers reports it; the flag is cleared no earlier than
\* 300 ms after the peer's last audio message, and it does not stay set for longer
\* than 300 ms plus one watcher period after it.
C7_TxWindow ==
  [][/\ \A c \in Conns :
          Recv(c, AudioLine) /\ Owns(c) =>
            /\ EntryOf(clients', c).tx /\ EntryOf(clients', c).last_audio = now
            /\ \A d \in Conns : \A i \in 1..Len(Written(d)) :
                 Written(d)[i].type = "userlist" =>
                   \E j \in 1..Len(Written(d)[i].users) :
                     Written(d)[i].users[j].owner = c /\ Written(d)[i].users[j].tx
     /\ \A i \in 1..Len(clients) :
          /\ clients[i].live /\ clients[i].tx
          /\ clients'[i].live /\ ~clients'[i].tx /\ clients'[i].writer = clients[i].writer
          =>
            now - clients[i].last_audio > VOICE_TIMEOUT
     /\ \A i \in 1..Len(clients') :
          clients'[i].live /\ clients'[i].tx =>
            now' - clients'[i].last_audio <= VOICE_TIMEOUT + WATCH_SLEEP]_vars

(* ----------------------- claims on the client session ------------------- *)
\* the states the session announces: Connecting, Backoff(i), Connected
IsState(m) == m \notin {NetworkError, ServerClosed}
StateTrace == SelectSeq(status, IsState)

Backoff ==
  <<Reconnecting(5), Reconnecting(4), Reconnecting(3), Reconnecting(2), Reconnecting(1)>>

\* C10: against a server that refuses two attempts and accepts the third the session
\* announces Connecting, Backoff 5,4,3,2,1, Connecting, Backoff 5,4,3,2,1, Connecting,
\* Connected, having slept ten seconds; every attempt but the first comes right after
\* a full countdown of five one-second sleeps.
C10_Reconnect ==
  /\ answers = <<"refuse", "refuse", "accept">> /\ net_pc = "rx" =>
       /\ StateTrace = <<Connecting>> \o Backoff \o <<Connecting>> \o Backoff
                         \o <<Connecting, Connected>>
       /\ slept = 10
  /\ \A k \in 2..Len(StateTrace) :
       StateTrace[k] = Connecting =>
         k > Len(Backoff) /\ SubSeq(StateTrace, k - Len(Backoff), k - 1) = Backoff
  /\ attempts > 0 => slept >= 5 * (attempts - 1)

\* C10 witness: two refusals, then the third attempt is accepted, with no stop
C10_Witness ==
  answers = <<"refuse", "refuse", "accept">> /\ net_pc = "rx" /\ ~net_stop

\* the events that report the end of a connect-and-serve cycle
EndEvents == {NetworkError, ServerClosed}

\* a connect-and-serve cycle ends in this step
CycleEnds == net_pc \in {"open", "rx"} /\ net_pc' \notin {"open", "rx"}

\* a new connection attempt starts in this step
AttemptStarts == attempts' = attempts + 1

\* C11: a connect-and-serve cycle that ends without a local stop (refusal or failed
\* handshake, EOF, an error in the receive loop, a send task that had failed) emits
\* one status event and enters the countdown; every attempt but the first starts
\* right after such an event and the five countdown events; the session loop has
\* returned only if stop was requested; and a session in its countdown starts a new
\* attempt unless it is stopped.
C11_AlwaysRetries ==
  /\ [][CycleEnds /\ ~net_stop =>
          /\ net_pc' = "countdown" /\ net_i' = 1
          /\ \E e \in EndEvents : status' = Append(status, e)]_vars
  /\ [][AttemptStarts /\ attempts > 0 =>
          /\ Len(status) > Len(Backoff)
          /\ SubSeq(status, Len(status) - Len(Backoff) + 1, Len(status)) = Backoff
          /\ status[Len(status) - Len(Backoff)] \in EndEvents]_vars
  /\ [](net_pc = "returned" => net_stop)
  /\ (net_pc = "countdown" /\ attempts < MaxAttempts) ~> (net_pc = "open" \/ net_stop)

\* C11 witness: with no stop, a refused attempt and a connection that ended have
\* both been followed by a new attempt
C11_Witness ==
  /\ ~net_stop /\ net_pc = "open" /\ attempts = 3
  /\ \E i, j \in 1..Len(status) : status[i] = NetworkError /\ status[j] = ServerClosed

\* C12: once stop() has been called the session loop returns, no new connection
\* attempt starts, and a read timeout that finds the stop leaves the receive loop.
C12_StopEnds ==
  /\ net_stop ~> (net_pc = "returned")
  /\ [][net_stop => attempts' = attempts]_vars
  /\ [][net_stop /\ RxTimeout => net_pc' # "rx"]_vars

\* C12 witness: stopped while connected to a silent server, the session has returned
C12_Witness ==
  /\ net_stop /\ net_pc = "returned" /\ shut = "done"
  /\ answers = <<"accept">> /\ nrx = 1 /\ status = <<Connecting, Connected, ServerClosed>>

\* the messages that queue_message has passed on and that are not yet on a wire
Queued == {sched[i] : i \in 1..Len(sched)} \cup
          {outbound_queue[i] : i \in 1..Len(outbound_queue)} \cup
          IF qm = NoCall THEN {} ELSE {qm.m}

OnWire == UNION {{wire[k][i] : i \in 1..Len(wire[k])} : k \in Attempts}

\* C13: a queue_message call that begins after stop() changes nothing: no message of
\* such a call is scheduled, queued or written to a connection.
C13_StoppedDrops ==
  /\ [][net_stop /\ nmsg' = nmsg + 1 =>
          UNCHANGED <<qm, sched, outbound_queue, wire>>]_vars
  /\ [](\A m \in Queued \cup OnWire : ~m.late)

\* C13 witness: the first message was written to the server, the second, sent after
\* the stop, is nowhere (no send task failed and nothing scheduled was dropped)
C13_Witness ==
  /\ net_stop /\ nmsg = 2 /\ net_pc # "returned"
  /\ \A k \in Attempts : send[k] # "failed"
  /\ \E k \in Attempts : wire[k] = <<Hello, OutMsg("chat", 1, FALSE)>>
  /\ \A m \in Queued \cup OnWire : m.n # 2

(* ----------------------- claims on the capture callback ------------------ *)
\* the capture callback is called in this step with a frame of level rms
Captures(rms) == \E fail \in SUBSET FailSteps : InputCallback(rms, fail)

\* a step in which queue_message is called k times with an audio message
Enqueues(k) == nmsg' = nmsg + k

\* C14: in Push-to-Talk mode a callback that finds the key not pressed calls
\* queue_message not at all; one that finds it pressed, the mic not muted, calls it
\* at most once, and exactly once when neither resample nor encode raises.
C14_PushToTalk ==
  [][\A rms \in RmsLevels : Captures(rms) /\ ptt_enabled =>
        /\ ~ptt_pressed => Enqueues(0) /\ qm' = qm
        /\ ptt_pressed /\ ~mic_muted => Enqueues(0) \/ Enqueues(1)
        /\ ptt_pressed /\ ~mic_muted /\ ~cb'.failed => Enqueues(1)]_vars

\* C14 witness: Push-to-Talk, three callbacks: two with the key up, then one with
\* the key down, which queued the only message
C14_Witness ==
  /\ ptt_enabled /\ ptt_pressed /\ ncb = 3 /\ nmsg = 1 /\ Len(inputLevel) = 1
  /\ ~cb.muted /\ ~cb.failed

\* C15: a callback that finds the mic muted calls queue_message not at all and queues
\* no loopback packet, in every mode, with the key up or down, at every level.
C15_MicMute ==
  [][\A rms \in RmsLevels : Captures(rms) /\ mic_muted =>
        /\ Enqueues(0)
        /\ UNCHANGED <<qm, sched, incoming_audio_queue>>]_vars

\* C15 witness: a callback has returned on the mute while the loopback was on and
\* the key pressed
C15_Witness ==
  cb.muted /\ mic_muted /\ loopback_enabled /\ ptt_pressed /\ net_loop

Passes(rms) ==
  /\ ~mic_muted
  /\ ptt_enabled => ptt_pressed
  /\ ptt_enabled \/ ~vox_enabled \/ rms >= VOX_THRESHOLD

\* C19 as stated: every capture callback emits one input-level event.
C19_Stated ==
  [][\A rms \in RmsLevels : Captures(rms) => Len(inputLevel') = Len(inputLevel) + 1]_vars

\* C19 as amended: a capture callback emits one input-level event, the frame's RMS,
\* when the mic is not muted and the frame passes the gate, whether or not resample
\* and encode succeed; a callback with the mic muted, with Push-to-Talk not pressed
\* or with the Voice-Activated gate below the threshold emits none.
C19_LevelAfterGate ==
  [][\A rms \in RmsLevels : Captures(rms) =>
        inputLevel' = IF Passes(rms) THEN Append(inputLevel, rms) ELSE inputLevel]_vars

\* C19 witness: of three callbacks one emitted a level, and the last one was gated
C19_Witness ==
  ncb = 3 /\ Len(inputLevel) = 1 /\ ~cb.muted /\ ~mic_muted /\ vox_enabled /\ ~ptt_enabled

\* C20: in Voice-Activated mode with the mic not muted a frame is passed to
\* queue_message only if its RMS is at or above the threshold, and exactly once if it
\* is and nothing raises; a voice-activity event is emitted exactly when the gate's
\* result differs from vox_active, which then takes the new value; and the emitted
\* values alternate true, false, true, ... over all callbacks and mode changes.
C20_VoiceGate ==
  /\ [][\A rms \in RmsLevels :
          Captures(rms) /\ ~mic_muted /\ ~ptt_enabled /\ vox_enabled =>
            LET loud == rms >= VOX_THRESHOLD
            IN  /\ ~loud => Enqueues(0) /\ qm' = qm
                /\ loud /\ ~cb'.failed => Enqueues(1)
                /\ vox_active' = loud
                /\ voxActivity' = IF loud # vox_active THEN Append(voxActivity, loud)
                                  ELSE voxActivity]_vars
  /\ [](\A i \in 1..Len(voxActivity) : voxActivity[i] = (i % 2 = 1))

\* C20 witness: three voice-activity events, the second one from a callback in
\* Open-Mic mode
C20_Witness ==
  voxActivity = <<TRUE, FALSE, TRUE>> /\ Len(inputLevel) = 3 /\ vox_enabled

(* ----------------------- claims on the playback callback ----------------- *)
\* C17: a playback callback writes the whole buffer: silence when the speaker is
\* muted, when the queue is empty or when the packet it took does not decode, the
\* decoded frame otherwise; it takes no packet when muted and exactly the first one
\* otherwise, so that the packet after a failed one is the next to be played.
C17_Playback ==
  [][OutputCallback =>
       /\ outdata' = IF spk_muted \/ incoming_audio_queue = << >> THEN Silence
                     ELSE IF Head(incoming_audio_queue).kind = "good"
                     THEN Head(incoming_audio_queue)
                     ELSE Silence
       /\ incoming_audio_queue' =
            IF spk_muted \/ incoming_audio_queue = << >> THEN incoming_audio_queue
            ELSE Tail(incoming_audio_queue)]_vars

\* C17 witness: two packets have arrived and two callbacks have run with the speaker
\* on; the second took the second packet, which did not decode, and wrote silence
C17_Witness ==
  /\ nout = 2 /\ npk = 2 /\ incoming_audio_queue = << >> /\ ~spk_muted
  /\ outdata = Silence

\* C18: the playback queue never holds more than a fixed number of packets: of the
\* MaxPackets packets of a run at least one is dropped.
C18_Bounded == Len(incoming_audio_queue) < MaxPackets

(* ------------------------- claims on the protocol ------------------------ *)
\* the status lines in which a flag is missing, and those in which a flag that is
\* there is not a boolean
Lacks(l) == l.muted = Absent \/ l.spk_muted = Absent
NonBoolean(l) == l.muted \notin JBool \cup {Absent} \/ l.spk_muted \notin JBool \cup {Absent}
StatusLines == {l \in Lines : l.type = "status"}

\* C21 as stated: a status message that lacks muted or spk_muted, or carries a
\* non-boolean value for either, ends the connection and changes no flag.
C21_Stated ==
  [][\A c \in Conns : \A l \in StatusLines :
       Recv(c, l) /\ (Lacks(l) \/ NonBoolean(l)) => Rejects(c, {"bad fields"})]_vars

\* C21 as amended: a status message that carries a non-boolean value for muted or
\* spk_muted ends the connection and changes no flag; one that only lacks a flag is
\* accepted: the handler reads on and the session registered under the sender's CN
\* has the missing flag false and the other as sent.
C21_StatusSchema ==
  [][\A c \in Conns : \A l \in StatusLines :
       Recv(c, l) =>
         IF NonBoolean(l) THEN Rejects(c, {"bad fields"})
         ELSE /\ conn'[c].left = "no"
              /\ LET k == KeyIndex(clients, frame[c].cn)
                 IN  k # 0 => /\ clients'[k].live
                              /\ clients'[k].muted = GetOrFalse(l.muted)
                              /\ clients'[k].spk_muted = GetOrFalse(l.spk_muted)]_vars

\* C21 witness: a peer that sent a status without `muted` reads on, registered with
\* the speaker flag it sent; another was closed for a string in `muted`
C21_Witness ==
  \E c, d \in Conns :
    /\ Owns(c) /\ frame[c].pc = "read" /\ nlines = 2
    /\ EntryOf(clients, c).muted = "false" /\ EntryOf(clients, c).spk_muted = "true"
    /\ conn[d].left = "bad fields" /\ conn[d].net = "closed" /\ ~Owns(d)

\* the lines of type init or status that the handler accepts
SessionLines == {l \in Lines : l.type \in {"init", "status"} /\ ~Breaks(l)}

\* the snapshots written in this step report connection c with the flags of line l
Reports(c, l) ==
  \A d \in Conns : \A i \in 1..Len(Written(d)) :
    \E j \in 1..Len(Written(d)[i].users) :
      LET u == Written(d)[i].users[j]
      IN  /\ u.owner = c
          /\ u.muted = Apply(DeadEntry, l, now).muted
          /\ u.spk_muted = Apply(DeadEntry, l, now).spk_muted

\* C22: no init and no status message is written to a peer; an accepted init or
\* status changes the session of the connection that sent it and no other, and the
\* snapshot it triggers is written to the registered peers with the sender's new flags.
C22_OwnSessionOnly ==
  /\ [](\A d \in Conns : \A i \in 1..Len(inbox[d]) :
          inbox[d][i].type \notin {"init", "status"})
  /\ [][\A c \in Conns : \A l \in SessionLines :
          Recv(c, l) =>
            /\ \A i \in 1..Len(clients) :
                 clients[i].live /\ clients[i].writer # c => clients'[i] = clients[i]
            /\ \E d \in Conns : Written(d) # << >>
            /\ Reports(c, l)]_vars

\* the fields an init message sets
Identity(e) == <<e.cn, e.ip, e.muted, e.spk_muted>>

\* C23: an init message that is not the first line of its connection changes the
\* name, ip and mute flags of no session.
C23_InitOnlyFirst ==
  [][\A c \in Conns :
       Recv(c, InitLine) /\ conn[c].got > 0 =>
         \A i \in 1..Len(clients) :
           clients[i].live => Identity(clients'[i]) = Identity(clients[i])]_vars

\* the handler of c is in broadcast(msg) for a chat line
RelaysChat(c) == frame[c].pc \in {"rel_next", "rel_drain"} /\ frame[c].data.type = "chat"

\* the connections the step wrote line n to
WrittenTo(n) == {d \in Conns : \E i \in 1..Len(Written(d)) : Written(d)[i].n = n}

\* C24: a chat line of a registered peer that is relayed without a suspension is
\* written to every other registered peer whose connection is up and to nobody else,
\* the sender included; no step of a chat relay changes a field of a session; a chat
\* line is written only by its sender's handler while it handles that line, to a peer
\* that was registered when the line was read; and a handler that is back in readline
\* holds no message.
C24_ChatRelay ==
  /\ [][\A c \in Conns :
          Recv(c, ChatLine) /\ Owns(c) /\ frame'[c].pc = "read" =>
            WrittenTo(nlines + 1) =
              {d \in Registered(clients) \ {c} : conn[d].net = "up"}]_vars
  /\ [][\A c \in Conns :
          Recv(c, ChatLine) \/ (RelaysChat(c) /\ Resume(c)) => FlagsUnchanged]_vars
  /\ [][\A d \in Conns : \A i \in 1..Len(Written(d)) :
          LET m == Written(d)[i]
          IN  m.type = "chat" =>
                /\ d # m.src
                /\ \/ Recv(m.src, ChatLine) /\ m.n = nlines + 1 /\ d \in Registered(clients)
                   \/ /\ RelaysChat(m.src) /\ Resume(m.src) /\ m.n = frame[m.src].data.n
                      /\ \E j \in 1..Len(frame[m.src].items) :
                           frame[m.src].items[j].writer = d]_vars
  /\ [](\A c \in Conns : frame[c].pc = "read" => frame[c].data = NoMsg)

\* the lines of type audio or chat that the handler relays
RelayedLines == {l \in Lines : l.type \in {"audio", "chat"} /\ ~Breaks(l)}

\* C25: the line written to each recipient of a relayed audio or chat message is
\* the line the server read from the sender, byte for byte.
C25_Verbatim ==
  [][\A c \in Conns : \A l \in RelayedLines :
       Recv(c, l) =>
         \A d \in Conns : \A i \in 1..Len(Written(d)) :
           Written(d)[i].type # "userlist" => Written(d)[i].body = l]_vars

(* ----------------------- claims on the whole path ------------------------ *)
\* the chat and audio lines a peer was written, in the order of arrival, and the
\* queue_message call each comes from
IsRelayed(m) == m.type \in {"chat", "audio"}
Arrived(d) == SelectSeq(inbox[d], IsRelayed)
CallNo(m) == CallOf(IF m.type = "chat" THEN m.body.text ELSE m.body.data)

\* C26: the chat and audio messages of the client arrive at the peer in the order
\* of the queue_message calls, none of them twice.
C26_SenderOrder ==
  \A i, j \in 1..Len(Arrived(1)) :
    i < j => CallNo(Arrived(1)[i]) < CallNo(Arrived(1)[j])

ArrivesFrom(ip) == \E c \in Conns : Arrives(c) /\ conn'[c].ip = ip

\* C29 as stated: an entry leaves the blocked-IP map only in a sweep of the cleaner.
C29_Stated ==
  [][\A ip \in DOMAIN blocked_ips : ip \notin DOMAIN blocked_ips' => BlocklistCleaner]_vars

\* C29: an entry leaves the blocked-IP map only when its block has expired, in a sweep
\* of the cleaner or when a connection arrives from its address; a connection changes
\* no entry but that of its own address; after a sweep no entry of the map has expired.
C29_Removal ==
  [][/\ \A ip \in DOMAIN blocked_ips :
          /\ ip \notin DOMAIN blocked_ips' =>
                /\ ~IsBlocked(blocked_ips, ip, now)
                /\ BlocklistCleaner \/ ArrivesFrom(ip)
          /\ ip \in DOMAIN blocked_ips' /\ blocked_ips'[ip] # blocked_ips[ip] =>
                ArrivesFrom(ip)
     /\ BlocklistCleaner =>
          \A ip \in DOMAIN blocked_ips' : IsBlocked(blocked_ips', ip, now')]_vars

\* C29 witness: a sweep has removed the expired entry of an address no connection
\* came from again, and a connection has removed the expired entry of its own address
\* before the sweep of that moment
C29_Witness ==
  \E c, d, e \in Conns :
    /\ conn[c].outcome = "denied" /\ conn[d].outcome = "denied"
    /\ \A x \in Conns \ {c} : conn[x].ip # conn[c].ip
    /\ conn[c].at + SERVER_IP_BLOCK_DURATION <= now
    /\ conn[e].outcome = "registered" /\ conn[e].ip = conn[d].ip
    /\ conn[e].at = conn[d].at + SERVER_IP_BLOCK_DURATION
    /\ conn[e].at = now /\ CleanerDue
    /\ blocked_ips = NoBlocks

InSnapshot(t) == frame[t].pc = "bul_next"

\* C31: a task resumed in a broadcast goes on with the recipients that remain,
\* whatever has registered or unregistered meanwhile: its loop does not raise, and
\* neither the handler nor the watcher that issued the broadcast is ended by it.
C31_SnapshotIteration ==
  [][\A t \in Tasks :
       InSnapshot(t) /\ Resume(t) =>
         /\ IterNext(frame[t], clients) # -1
         /\ frame'[t].pc \notin {"crashed", "dead"}]_vars

\* the sessions whose flag is set and whose last audio is more than 300 ms old
Silent == {i \in 1..Len(clients) :
             clients[i].live /\ clients[i].tx /\ now - clients[i].last_audio > VOICE_TIMEOUT}

\* C32: a turn of the watcher clears the tx flag of the sessions whose flag is set and
\* whose last audio is more than 300 ms old, and changes nothing else in the registry;
\* when no flag was cleared it writes nothing and sleeps again; when some were, it
\* builds one snapshot of the registry with the flags cleared and writes it at most
\* once to a recipient, also after a suspension, and once to every connected session
\* when the broadcast has run to its end within the turn.
C32_WatcherTick ==
  [][/\ VoiceWatcher =>
          /\ clients' = [i \in 1..Len(clients) |->
                           IF i \in Silent THEN [clients[i] EXCEPT !.tx = FALSE]
                           ELSE clients[i]]
          /\ \A d \in Conns : \A i \in 1..Len(Written(d)) :
                Written(d)[i] = UserListMsg(clients')
          /\ Silent = {} =>
                /\ \A d \in Conns : Written(d) = << >>
                /\ frame'[WatcherTask].pc = "sleep"
          /\ Silent # {} =>
                /\ \A d \in Conns : Len(Written(d)) <= 1
                /\ frame'[WatcherTask].pc = "sleep" =>
                      \A d \in Registered(clients) :
                        conn[d].net = "up" => Len(Written(d)) = 1
                /\ frame'[WatcherTask].pc # "sleep" =>
                      frame'[WatcherTask].message = UserListMsg(clients')
     /\ Resume(WatcherTask) =>
          \A d \in Conns :
            /\ Len(Written(d)) <= 1
            /\ \A i \in 1..Len(Written(d)) : Written(d)[i] = frame[WatcherTask].message]_vars

\* C32 witness: two sessions were reported as transmitting, and the next snapshot,
\* written by the watcher in the turn that has just ended, reports both as silent
C32_Witness ==
  \E c, d \in Registered(clients) :
    /\ c # d /\ frame[WatcherTask].pc = "sleep" /\ wake = now + WATCH_SLEEP
    /\ Len(inbox[c]) >= 2
    /\ LET old == inbox[c][Len(inbox[c]) - 1]
           new == inbox[c][Len(inbox[c])] IN
       /\ old.type = "userlist" /\ new = UserListMsg(clients)
       /\ \A x \in {c, d} :
            /\ \E j \in 1..Len(old.users) : old.users[j].owner = x /\ old.users[j].tx
            /\ \E j \in 1..Len(new.users) : new.users[j].owner = x /\ ~new.users[j].tx

\* C33: on every connection the client has opened, the first line written is the init
\* line, and no other line written on it is an init line: every later line is a
\* message of a queue_message call.
C33_InitFirst ==
  \A k \in Attempts :
    /\ link[k] # "none" => wire[k] # << >>
    /\ wire[k] # << >> =>
         /\ wire[k][1] = Hello
         /\ \A i \in 2..Len(wire[k]) : wire[k][i].type # "init" /\ wire[k][i].n > 0

\* C33 witness: on a reconnection a queued message was written after the init line,
\* and so it was on the connection before
C33_Witness ==
  \E j, k \in Attempts :
    j < k /\ Len(wire[j]) >= 2 /\ Len(wire[k]) >= 2 /\ wire[k][1] = Hello

\* C34: the gate is in one mode: ptt_enabled and vox_enabled are never both true.
C34_OneMode == ~(ptt_enabled /\ vox_enabled)

\* the outcomes of a connection that is refused
Refusals == {"blocked", "denied", "full"}

\* C35: neither the arrival of a connection that is refused nor any later step of its
\* handler changes the registry, whatever certificate the connection presents.
C35_RefusalKeepsRegistry ==
  [][\A c \in Conns :
       \/ Arrives(c) /\ conn'[c].outcome \in Refusals
       \/ conn[c].outcome \in Refusals /\ Resume(c)
       => clients' = clients]_vars

\* the connection was registered and its handler has not left the read loop
Reading(c) == conn[c].outcome = "registered" /\ conn[c].left = "no"

\* C36: the connections that were registered and whose handler is still reading, and
\* the entries of the registry, correspond one to one: each such connection is the
\* writer of exactly one entry, and the writer of each entry is such a connection.
C36_OneToOne ==
  /\ \A c \in Conns :
       Reading(c) =>
         Cardinality({i \in 1..Len(clients) : clients[i].live /\ clients[i].writer = c}) = 1
  /\ \A i \in 1..Len(clients) : clients[i].live => Reading(clients[i].writer)

\* C37: in every snapshot written to a peer, the name of an entry is the CN of the
\* certificate its session authenticated with, and no two entries have the same name.
C37_NameIsCN ==
  \A d \in Conns : \A i \in 1..Len(inbox[d]) :
    inbox[d][i].type = "userlist" =>
      LET users == inbox[d][i].users IN
      \A j, k \in 1..Len(users) :
        /\ users[j].name = conn[users[j].owner].cert
        /\ j # k => users[j].name # users[k].name

\* the snapshots written to connection d, in the order of the writes
Snapshots(d) == LET IsList(m) == m.type = "userlist" IN SelectSeq(inbox[d], IsList)

\* C38: snapshots reach a recipient in the order they were built, so that once no
\* broadcast is under way the last snapshot written to a connected session is the
\* snapshot of the registry as it is.
C38_LatestWins ==
  (\A t \in Tasks : ~Suspended(t)) =>
    \A d \in Registered(clients) :
      conn[d].net = "up" =>
        /\ Snapshots(d) # << >>
        /\ Snapshots(d)[Len(Snapshots(d))] = UserListMsg(clients)

\* the connections whose send task is waiting in outbound_queue.get
Draining == {k \in Attempts : send[k] = "get"}

\* C39: at most one send loop drains the outbound queue at any time: the send loop
\* of a connection that ended is over before the send loop of the next one runs.
C39_OneSendLoop == Cardinality(Draining) <= 1

\* C40: a capture block of each candidate rate has FRAME_SIZE samples, 960, once
\* resampled, and every block the capture callback hands to encoder.encode is one
\* canonical frame of that length.
C40_CanonicalFrame ==
  [][nmsg' # nmsg =>
       /\ \A i \in 1..Len(CandidateRates) :
            LET r == CandidateRates[i]
            IN  Resampled((r * FRAME_DURATION_MS) \div 1000, r) = 960
       /\ CaptureLen = FRAME_SIZE /\ FRAME_SIZE = 960]_vars
====
